---- MODULE Spec2Model ----
(***************************************************************************)
(* A model of the LArPix protocol codec (src/src/larpix.c, larpix.h):      *)
(* the 8 x 1024 bit-sample buffer, the 54-sample UART packet with its      *)
(* field accessors and parity, the start/stop framing of a packet into a   *)
(* buffer channel, and the configuration register map (63 registers).      *)
(*                                                                         *)
(* C objects are modelled as functions indexed from 0, bytes as 0..255,    *)
(* uint as 0..2^32-1.  Every C function is an operator that returns the    *)
(* object(s) it mutates; every action is one call of an API function on    *)
(* the caller-owned objects held in the variables.                         *)
(***************************************************************************)
EXTENDS Integers, Sequences, FiniteSets, TLC

VARIABLES
    op,       \* name of the API function called last ("init" before any call)
    calls,    \* number of API calls made so far
    config,   \* the caller's larpix_configuration handed to write_all
    packets,  \* larpix_uart_packet packets[LARPIX_NUM_CONFIG_REGISTERS]
    config2,  \* the larpix_configuration that the read accessors decode into
    status,   \* value returned by the last read_all / read accessor call
    packet,   \* a single larpix_uart_packet P (field setters, parity, framing)
    out,      \* the larpix_uart_packet Q filled by larpix_data_to_uart
    data,     \* a larpix_data buffer: bits[8][LARPIX_BUFFER_SIZE]
    ret,      \* value returned by the last framing / parity call
    arg,      \* arguments of the last call (record)
    oob       \* TRUE once a call has accessed memory outside its object

vars == <<op, calls, config, packets, config2, status, packet, out, data, ret, arg, oob>>

(***************************************************************************)
(* Constants of include/larpix.h                                           *)
(***************************************************************************)
LARPIX_BUFFER_SIZE == 1024
LARPIX_UART_SIZE == 54
LARPIX_BITS_PER_BAUD == 4
LARPIX_NUM_CHANNELS == 32
LARPIX_NUM_CONFIG_REGISTERS == 63
LARPIX_NUM_BIT_CHANNELS == 8

LARPIX_UART_PTYPE_LOW == 0
LARPIX_UART_PTYPE_HIGH == 1
LARPIX_UART_CHIPID_LOW == 2
LARPIX_UART_CHIPID_HIGH == 9
LARPIX_UART_PARITY == 53
LARPIX_UART_CHANNELID_LOW == 10
LARPIX_UART_CHANNELID_HIGH == 16
LARPIX_UART_TIMESTAMP_LOW == 17
LARPIX_UART_TIMESTAMP_HIGH == 40
LARPIX_UART_DATAWORD_LOW == 41
LARPIX_UART_DATAWORD_HIGH == 50
LARPIX_UART_FIFO_HALF == 51
LARPIX_UART_FIFO_FULL == 52
LARPIX_UART_REGISTER_ADDRESS_LOW == 10
LARPIX_UART_REGISTER_ADDRESS_HIGH == 17
LARPIX_UART_REGISTER_DATA_LOW == 18
LARPIX_UART_REGISTER_DATA_HIGH == 25
LARPIX_UART_TEST_BITS_11_0_LOW == 41
LARPIX_UART_TEST_BITS_11_0_HIGH == 52
LARPIX_UART_TEST_BITS_15_12_LOW == 10
LARPIX_UART_TEST_BITS_15_12_HIGH == 13

\* enum larpix_packet_type
LARPIX_PACKET_DATA == 0
LARPIX_PACKET_TEST == 1
LARPIX_PACKET_CONFIG_WRITE == 2
LARPIX_PACKET_CONFIG_READ == 3

\* byte is unsigned char: 8 bits
BYTE_BITS == 8
ByteMod == 2^BYTE_BITS

(***************************************************************************)
(* Register addresses (larpix_config_registers.h, included by larpix.c).   *)
(* The header is not part of the sources at hand; the values are those of  *)
(* the register space described in the specification (0..31 pixel trim     *)
(* thresholds, 32..62 the other fields in order) and agree with            *)
(* tests/ConfigTest.c (test_write_all, test_read_reset_cycles).            *)
(***************************************************************************)
LARPIX_REG_PIXEL_TRIM_THRESHOLD_LOW == 0
LARPIX_REG_PIXEL_TRIM_THRESHOLD_HIGH == 31
LARPIX_REG_GLOBAL_THRESHOLD == 32
LARPIX_REG_CSA_GAIN_AND_BYPASSES == 33
LARPIX_REG_CSA_BYPASS_SELECT_LOW == 34
LARPIX_REG_CSA_BYPASS_SELECT_HIGH == 37
LARPIX_REG_CSA_MONITOR_SELECT_LOW == 38
LARPIX_REG_CSA_MONITOR_SELECT_HIGH == 41
LARPIX_REG_CSA_TESTPULSE_ENABLE_LOW == 42
LARPIX_REG_CSA_TESTPULSE_ENABLE_HIGH == 45
LARPIX_REG_CSA_TESTPULSE_DAC_AMPLITUDE == 46
LARPIX_REG_TEST_MODE_XTRIG_RESET_DIAG == 47
LARPIX_REG_SAMPLE_CYCLES == 48
LARPIX_REG_TEST_BURST_LENGTH_LOW == 49
LARPIX_REG_TEST_BURST_LENGTH_HIGH == 50
LARPIX_REG_ADC_BURST_LENGTH == 51
LARPIX_REG_CHANNEL_MASK_LOW == 52
LARPIX_REG_CHANNEL_MASK_HIGH == 55
LARPIX_REG_EXTERNAL_TRIGGER_MASK_LOW == 56
LARPIX_REG_EXTERNAL_TRIGGER_MASK_HIGH == 59
LARPIX_REG_RESET_CYCLES_LOW == 60
LARPIX_REG_RESET_CYCLES_HIGH == 62

(***************************************************************************)
(* C integer arithmetic                                                    *)
(***************************************************************************)
\* bit i of the non-negative integer v
BitOf(v, i) == (v \div (2^i)) % 2

\* (byte) x : conversion to unsigned char
ToByte(x) == x % ByteMod

\* uint is unsigned int, 32 bits wide.  A uint u is held as the integer of
\* -2^31 .. 2^31-1 that is congruent to u modulo 2^32 (its two's complement
\* reading): u itself below 2^31, u - 2^32 from 2^31 on, so that UINT_MAX is
\* -1.  On these representatives the wrapping sum of C is the plain sum, and
\* the order of C is UintGreater.  Values cast to uint that are below 2^31
\* (a field of at most 24 bits, a sum of at most 63 ones) are unchanged.
UintAdd(a, b) == a + b

\* a > b as C compares two uint values
UintGreater(a, b) == IF (a < 0) = (b < 0) THEN a > b ELSE a < 0

\* a | b on non-negative ints below 2^16 (a byte shifted left by at most 7)
BitOr(a, b) ==
    LET f[i \in 0..16] ==
            IF i = 16 THEN 0
            ELSE (IF BitOf(a, i) = 1 \/ BitOf(b, i) = 1 THEN 2^i ELSE 0) + f[i + 1]
    IN f[0]

(***************************************************************************)
(* BitField: larpix_bitstream_to_int / larpix_int_to_bitstream             *)
(*                                                                         *)
(* A byte* argument is modelled by the array it points into together with  *)
(* the index `start` of the element it points at: bitstream[i] of the C    *)
(* code is bitstream[start + i] here.                                      *)
(***************************************************************************)
\* the loop of larpix_bitstream_to_int from iteration i on
RECURSIVE BitstreamToIntLoop(_, _, _, _, _)
BitstreamToIntLoop(bitstream, start, length, i, result) ==
    IF ~(i < length) THEN result
    ELSE BitstreamToIntLoop(bitstream, start, length, i + 1,
             IF ~(bitstream[start + i] = 0) THEN result + 2^i ELSE result)

\* larpix_bitstream_to_int with a result that holds 16 bits
larpix_bitstream_to_int_16Bit(bitstream, start, length) ==
    BitstreamToIntLoop(bitstream, start, length, 0, 0) % 65536

larpix_bitstream_to_int(bitstream, start, length) ==
    BitstreamToIntLoop(bitstream, start, length, 0, 0)

\* the loop of larpix_int_to_bitstream from iteration i on
RECURSIVE IntToBitstreamLoop(_, _, _, _, _)
IntToBitstreamLoop(bitstream, start, input, length, i) ==
    IF ~(i < length) THEN bitstream
    ELSE IntToBitstreamLoop(
             [bitstream EXCEPT ![start + i] = IF BitOf(input, i) = 0 THEN 0 ELSE 1],
             start, input, length, i + 1)

\* larpix_int_to_bitstream with an input that holds 16 bits
larpix_int_to_bitstream_16Bit(bitstream, start, input, length) ==
    IntToBitstreamLoop(bitstream, start, input % 65536, length, 0)

larpix_int_to_bitstream(bitstream, start, input, length) ==
    IntToBitstreamLoop(bitstream, start, input, length, 0)

(***************************************************************************)
(* UartPacket: field accessors                                             *)
(***************************************************************************)
\* generic body of a setter: int_to_bitstream on the field [low, high]
SetField(p, low, high, value) ==
    larpix_int_to_bitstream(p, low, value, 1 + high - low)

\* generic body of a getter: bitstream_to_int on the field [low, high]
GetField(p, low, high) ==
    larpix_bitstream_to_int(p, low, 1 + high - low)

\* larpix_uart_init_zeros is declared in larpix.h and used by the tests; its
\* body is not in larpix.c.  Modelled from tests/UartTest.c:test_init_zeros.
larpix_uart_init_zeros == [i \in 0..(LARPIX_UART_SIZE - 1) |-> 0]

larpix_uart_set_packet_type(p, type) ==
    SetField(p, LARPIX_UART_PTYPE_LOW, LARPIX_UART_PTYPE_HIGH, type)

larpix_uart_get_packet_type(p) ==
    GetField(p, LARPIX_UART_PTYPE_LOW, LARPIX_UART_PTYPE_HIGH)

\* larpix_uart_set_chipid with a length one too large
larpix_uart_set_chipid_NineBits(p, chipid) ==
    SetField(p, LARPIX_UART_CHIPID_LOW, LARPIX_UART_CHIPID_HIGH + 1, chipid)

larpix_uart_set_chipid(p, chipid) ==
    SetField(p, LARPIX_UART_CHIPID_LOW, LARPIX_UART_CHIPID_HIGH, chipid)

larpix_uart_get_chipid(p) ==
    GetField(p, LARPIX_UART_CHIPID_LOW, LARPIX_UART_CHIPID_HIGH)

\* the loop of larpix_uart_compute_parity from index i on
RECURSIVE ComputeParityLoop(_, _, _)
ComputeParityLoop(p, i, number_of_ones) ==
    IF ~(i < LARPIX_UART_PARITY) THEN number_of_ones
    ELSE ComputeParityLoop(p, i + 1,
             IF p[i] = 1 THEN number_of_ones + 1 ELSE number_of_ones)

\* larpix_uart_compute_parity counting the parity sample too
larpix_uart_compute_parity_WithParitySample(p) ==
    LET number_of_ones == ComputeParityLoop(p, 0, 0)
                              + (IF p[LARPIX_UART_PARITY] = 1 THEN 1 ELSE 0)
    IN ToByte(1 - ToByte(number_of_ones % 2))

larpix_uart_compute_parity(p) ==
    LET number_of_ones == ComputeParityLoop(p, 0, 0)
    IN ToByte(1 - ToByte(number_of_ones % 2))

\* larpix_uart_set_parity storing the parity in the sample before the last
larpix_uart_set_parity_AtFifoFull(p) ==
    [p EXCEPT ![LARPIX_UART_FIFO_FULL] = larpix_uart_compute_parity(p)]

larpix_uart_set_parity(p) ==
    [p EXCEPT ![LARPIX_UART_PARITY] = larpix_uart_compute_parity(p)]

larpix_uart_force_set_parity(p, parity) ==
    [p EXCEPT ![LARPIX_UART_PARITY] = IF parity = 0 THEN 0 ELSE 1]

larpix_uart_get_parity(p) == p[LARPIX_UART_PARITY]

larpix_uart_check_parity(p) ==
    LET computed_parity == larpix_uart_compute_parity(p)
        received_parity == p[LARPIX_UART_PARITY]
    IN IF computed_parity = received_parity THEN 0 ELSE 1

\* larpix_uart_set_channelid with a length one too large
larpix_uart_set_channelid_EightBits(p, channelid) ==
    SetField(p, LARPIX_UART_CHANNELID_LOW, LARPIX_UART_CHANNELID_HIGH + 1, channelid)

larpix_uart_set_channelid(p, channelid) ==
    SetField(p, LARPIX_UART_CHANNELID_LOW, LARPIX_UART_CHANNELID_HIGH, channelid)

larpix_uart_get_channelid(p) ==
    GetField(p, LARPIX_UART_CHANNELID_LOW, LARPIX_UART_CHANNELID_HIGH)

larpix_uart_set_timestamp(p, timestamp) ==
    SetField(p, LARPIX_UART_TIMESTAMP_LOW, LARPIX_UART_TIMESTAMP_HIGH, timestamp)

larpix_uart_get_timestamp(p) ==
    GetField(p, LARPIX_UART_TIMESTAMP_LOW, LARPIX_UART_TIMESTAMP_HIGH)

larpix_uart_set_dataword(p, dataword) ==
    SetField(p, LARPIX_UART_DATAWORD_LOW, LARPIX_UART_DATAWORD_HIGH, dataword)

larpix_uart_get_dataword(p) ==
    GetField(p, LARPIX_UART_DATAWORD_LOW, LARPIX_UART_DATAWORD_HIGH)

larpix_uart_set_fifohalfflag(p, fifohalfflag) ==
    [p EXCEPT ![LARPIX_UART_FIFO_HALF] = IF fifohalfflag = 0 THEN fifohalfflag ELSE 1]

larpix_uart_get_fifohalfflag(p) == p[LARPIX_UART_FIFO_HALF]

\* larpix_uart_set_fifofullflag storing bit 0 of its argument
larpix_uart_set_fifofullflag_BitZero(p, fifofullflag) ==
    SetField(p, LARPIX_UART_FIFO_FULL, LARPIX_UART_FIFO_FULL, fifofullflag)

larpix_uart_set_fifofullflag(p, fifofullflag) ==
    [p EXCEPT ![LARPIX_UART_FIFO_FULL] = IF fifofullflag = 0 THEN 0 ELSE 1]

larpix_uart_get_fifofullflag(p) == p[LARPIX_UART_FIFO_FULL]

\* larpix_uart_get_test_counter without the shift of the high part
larpix_uart_get_test_counter_NoShift(p) ==
    LET value  == GetField(p, LARPIX_UART_TEST_BITS_11_0_LOW, LARPIX_UART_TEST_BITS_11_0_HIGH)
        value2 == GetField(p, LARPIX_UART_TEST_BITS_15_12_LOW, LARPIX_UART_TEST_BITS_15_12_HIGH)
    IN value + value2

larpix_uart_get_test_counter(p) ==
    LET length == 1 + LARPIX_UART_TEST_BITS_11_0_HIGH - LARPIX_UART_TEST_BITS_11_0_LOW
        value  == GetField(p, LARPIX_UART_TEST_BITS_11_0_LOW, LARPIX_UART_TEST_BITS_11_0_HIGH)
        value2 == GetField(p, LARPIX_UART_TEST_BITS_15_12_LOW, LARPIX_UART_TEST_BITS_15_12_HIGH)
    IN value + value2 * (2^length)

\* larpix_uart_set_register storing the address where the packet type lies
larpix_uart_set_register_AtPacketType(p, address) ==
    SetField(p, LARPIX_UART_PTYPE_LOW,
             LARPIX_UART_PTYPE_LOW + LARPIX_UART_REGISTER_ADDRESS_HIGH
                 - LARPIX_UART_REGISTER_ADDRESS_LOW, address)

larpix_uart_set_register(p, address) ==
    SetField(p, LARPIX_UART_REGISTER_ADDRESS_LOW, LARPIX_UART_REGISTER_ADDRESS_HIGH, address)

larpix_uart_get_register(p) ==
    GetField(p, LARPIX_UART_REGISTER_ADDRESS_LOW, LARPIX_UART_REGISTER_ADDRESS_HIGH)

larpix_uart_set_register_data(p, value) ==
    SetField(p, LARPIX_UART_REGISTER_DATA_LOW, LARPIX_UART_REGISTER_DATA_HIGH, value)

larpix_uart_get_register_data(p) ==
    GetField(p, LARPIX_UART_REGISTER_DATA_LOW, LARPIX_UART_REGISTER_DATA_HIGH)

(***************************************************************************)
(* Configuration (struct larpix_configuration) and the register map        *)
(***************************************************************************)
Channels == 0..(LARPIX_NUM_CHANNELS - 1)

larpix_config_init_defaults ==
    [ pixel_trim_thresholds       |-> [i \in Channels |-> 16],
      global_threshold            |-> 16,
      csa_gain                    |-> 1,
      csa_bypass                  |-> 0,
      internal_bypass             |-> 1,
      csa_bypass_select           |-> [i \in Channels |-> 0],
      csa_monitor_select          |-> [i \in Channels |-> 1],
      csa_testpulse_enable        |-> [i \in Channels |-> 0],
      csa_testpulse_dac_amplitude |-> 0,
      test_mode                   |-> 0,
      cross_trigger_mode          |-> 0,
      periodic_reset              |-> 0,
      fifo_diagnostic             |-> 0,
      sample_cycles               |-> 1,
      test_burst_length           |-> [i \in 0..1 |-> IF i = 0 THEN 0 ELSE 255],
      adc_burst_length            |-> 0,
      channel_mask                |-> [i \in Channels |-> 0],
      external_trigger_mask       |-> [i \in Channels |-> 1],
      reset_cycles                |-> [i \in 0..2 |-> IF i = 1 THEN 16 ELSE 0] ]

\* the two calls that end every write accessor
WriteRegister(p, address, value) ==
    larpix_uart_set_register_data(larpix_uart_set_register(p, address), value)

\* PackChunk with channel i of the chunk in bit 7 - i
PackChunk_Reversed(array, channel_chunk) ==
    LET f[i \in 0..8] ==
            IF i = 0 THEN 0
            ELSE ToByte(BitOr(f[i - 1], array[channel_chunk * 8 + (i - 1)] * (2^(8 - i))))
    IN f[8]

\* the loop of the four 8-channels-per-register write accessors:
\*   value = value | (channel_value << i), value being a byte
PackChunk(array, channel_chunk) ==
    LET f[i \in 0..8] ==
            IF i = 0 THEN 0
            ELSE ToByte(BitOr(f[i - 1], array[channel_chunk * 8 + (i - 1)] * (2^(i - 1))))
    IN f[8]

\* the loop of the 8-channels-per-register read accessors:
\*   array[chunk * 8 + i] = (value >> i) & 1
UnpackChunk(array, chunk, value) ==
    [array EXCEPT ![chunk * 8 + 0] = BitOf(value, 0),
                  ![chunk * 8 + 1] = BitOf(value, 1),
                  ![chunk * 8 + 2] = BitOf(value, 2),
                  ![chunk * 8 + 3] = BitOf(value, 3),
                  ![chunk * 8 + 4] = BitOf(value, 4),
                  ![chunk * 8 + 5] = BitOf(value, 5),
                  ![chunk * 8 + 6] = BitOf(value, 6),
                  ![chunk * 8 + 7] = BitOf(value, 7)]

larpix_config_write_pixel_trim_threshold(cfg, p, channelid) ==
    LET value   == cfg.pixel_trim_thresholds[channelid]
        address == ToByte(LARPIX_REG_PIXEL_TRIM_THRESHOLD_LOW + channelid)
    IN WriteRegister(p, address, value)

larpix_config_read_pixel_trim_threshold(cfg, p, channelid) ==
    LET address == ToByte(larpix_uart_get_register(p))
    IN IF channelid # address - LARPIX_REG_PIXEL_TRIM_THRESHOLD_LOW
       THEN [config |-> cfg, ret |-> 1]
       ELSE [config |-> [cfg EXCEPT !.pixel_trim_thresholds[channelid] =
                                        ToByte(larpix_uart_get_register_data(p))],
             ret |-> 0]

larpix_config_write_global_threshold(cfg, p) ==
    WriteRegister(p, LARPIX_REG_GLOBAL_THRESHOLD, cfg.global_threshold)

\* larpix_config_read_global_threshold storing the value before it looks at
\* the address
larpix_config_read_global_threshold_StoreFirst(cfg, p) ==
    LET address == ToByte(larpix_uart_get_register(p))
    IN [config |-> [cfg EXCEPT !.global_threshold =
                                   ToByte(larpix_uart_get_register_data(p))],
        ret |-> IF address # LARPIX_REG_GLOBAL_THRESHOLD THEN 1 ELSE 0]

larpix_config_read_global_threshold(cfg, p) ==
    LET address == ToByte(larpix_uart_get_register(p))
    IN IF address # LARPIX_REG_GLOBAL_THRESHOLD
       THEN [config |-> cfg, ret |-> 1]
       ELSE [config |-> [cfg EXCEPT !.global_threshold =
                                        ToByte(larpix_uart_get_register_data(p))],
             ret |-> 0]

larpix_config_write_csa_gain_and_bypasses(cfg, p) ==
    LET v0 == cfg.csa_gain
        v1 == ToByte(v0 + cfg.csa_bypass * 2)
        v2 == ToByte(v1 + cfg.internal_bypass * 4)
    IN WriteRegister(p, LARPIX_REG_CSA_GAIN_AND_BYPASSES, v2)

larpix_config_read_csa_gain_and_bypasses(cfg, p) ==
    LET address == ToByte(larpix_uart_get_register(p))
        value   == ToByte(larpix_uart_get_register_data(p))
    IN IF address # LARPIX_REG_CSA_GAIN_AND_BYPASSES
       THEN [config |-> cfg, ret |-> 1]
       ELSE [config |-> [cfg EXCEPT !.csa_gain = BitOf(value, 0),
                                    !.csa_bypass = BitOf(value, 1),
                                    !.internal_bypass = BitOf(value, 2)],
             ret |-> 0]

larpix_config_write_csa_bypass_select(cfg, p, channel_chunk) ==
    WriteRegister(p, ToByte(LARPIX_REG_CSA_BYPASS_SELECT_LOW + channel_chunk),
                  PackChunk(cfg.csa_bypass_select, channel_chunk))

\* larpix_config_read_csa_bypass_select without the upper bound of its
\* address check
larpix_config_read_csa_bypass_select_NoUpperBound(cfg, p) ==
    LET address == ToByte(larpix_uart_get_register(p))
        value   == ToByte(larpix_uart_get_register_data(p))
    IN IF address < LARPIX_REG_CSA_BYPASS_SELECT_LOW
       THEN [config |-> cfg, ret |-> 1]
       ELSE [config |->
                 IF address > LARPIX_REG_CSA_BYPASS_SELECT_HIGH THEN cfg
                 ELSE [cfg EXCEPT !.csa_bypass_select =
                          UnpackChunk(@, address - LARPIX_REG_CSA_BYPASS_SELECT_LOW, value)],
             ret |-> 0]

larpix_config_read_csa_bypass_select(cfg, p) ==
    LET address == ToByte(larpix_uart_get_register(p))
        value   == ToByte(larpix_uart_get_register_data(p))
    IN IF address < LARPIX_REG_CSA_BYPASS_SELECT_LOW
          \/ address > LARPIX_REG_CSA_BYPASS_SELECT_HIGH
       THEN [config |-> cfg, ret |-> 1]
       ELSE [config |-> [cfg EXCEPT !.csa_bypass_select =
                 UnpackChunk(@, address - LARPIX_REG_CSA_BYPASS_SELECT_LOW, value)],
             ret |-> 0]

\* larpix_config_write_csa_monitor_select with the base address of the
\* bypass-select registers
larpix_config_write_csa_monitor_select_BypassBase(cfg, p, channel_chunk) ==
    WriteRegister(p, ToByte(LARPIX_REG_CSA_BYPASS_SELECT_LOW + channel_chunk),
                  PackChunk(cfg.csa_monitor_select, channel_chunk))

larpix_config_write_csa_monitor_select(cfg, p, channel_chunk) ==
    WriteRegister(p, ToByte(LARPIX_REG_CSA_MONITOR_SELECT_LOW + channel_chunk),
                  PackChunk(cfg.csa_monitor_select, channel_chunk))

larpix_config_read_csa_monitor_select(cfg, p) ==
    LET address == ToByte(larpix_uart_get_register(p))
        value   == ToByte(larpix_uart_get_register_data(p))
    IN IF address < LARPIX_REG_CSA_MONITOR_SELECT_LOW
          \/ address > LARPIX_REG_CSA_MONITOR_SELECT_HIGH
       THEN [config |-> cfg, ret |-> 1]
       ELSE [config |-> [cfg EXCEPT !.csa_monitor_select =
                 UnpackChunk(@, address - LARPIX_REG_CSA_MONITOR_SELECT_LOW, value)],
             ret |-> 0]

larpix_config_write_csa_testpulse_enable(cfg, p, channel_chunk) ==
    WriteRegister(p, ToByte(LARPIX_REG_CSA_TESTPULSE_ENABLE_LOW + channel_chunk),
                  PackChunk(cfg.csa_testpulse_enable, channel_chunk))

larpix_config_read_csa_testpulse_enable(cfg, p) ==
    LET address == ToByte(larpix_uart_get_register(p))
        value   == ToByte(larpix_uart_get_register_data(p))
    IN IF address < LARPIX_REG_CSA_TESTPULSE_ENABLE_LOW
          \/ address > LARPIX_REG_CSA_TESTPULSE_ENABLE_HIGH
       THEN [config |-> cfg, ret |-> 1]
       ELSE [config |-> [cfg EXCEPT !.csa_testpulse_enable =
                 UnpackChunk(@, address - LARPIX_REG_CSA_TESTPULSE_ENABLE_LOW, value)],
             ret |-> 0]

larpix_config_write_csa_testpulse_dac_amplitude(cfg, p) ==
    WriteRegister(p, LARPIX_REG_CSA_TESTPULSE_DAC_AMPLITUDE, cfg.csa_testpulse_dac_amplitude)

larpix_config_read_csa_testpulse_dac_amplitude(cfg, p) ==
    LET address == ToByte(larpix_uart_get_register(p))
    IN IF address # LARPIX_REG_CSA_TESTPULSE_DAC_AMPLITUDE
       THEN [config |-> cfg, ret |-> 1]
       ELSE [config |-> [cfg EXCEPT !.csa_testpulse_dac_amplitude =
                                        ToByte(larpix_uart_get_register_data(p))],
             ret |-> 0]

larpix_config_write_test_mode_xtrig_reset_diag(cfg, p) ==
    LET v0 == ToByte(BitOr(0, cfg.test_mode))
        v1 == ToByte(BitOr(v0, cfg.cross_trigger_mode * 4))
        v2 == ToByte(BitOr(v1, cfg.periodic_reset * 8))
        v3 == ToByte(BitOr(v2, cfg.fifo_diagnostic * 16))
    IN WriteRegister(p, LARPIX_REG_TEST_MODE_XTRIG_RESET_DIAG, v3)

larpix_config_read_test_mode_xtrig_reset_diag(cfg, p) ==
    LET address == ToByte(larpix_uart_get_register(p))
        value   == ToByte(larpix_uart_get_register_data(p))
    IN IF address # LARPIX_REG_TEST_MODE_XTRIG_RESET_DIAG
       THEN [config |-> cfg, ret |-> 1]
       ELSE [config |-> [cfg EXCEPT !.test_mode = value % 4,
                                    !.cross_trigger_mode = BitOf(value, 2),
                                    !.periodic_reset = BitOf(value, 3),
                                    !.fifo_diagnostic = BitOf(value, 4)],
             ret |-> 0]

larpix_config_write_sample_cycles(cfg, p) ==
    WriteRegister(p, LARPIX_REG_SAMPLE_CYCLES, cfg.sample_cycles)

larpix_config_read_sample_cycles(cfg, p) ==
    LET address == ToByte(larpix_uart_get_register(p))
    IN IF address # LARPIX_REG_SAMPLE_CYCLES
       THEN [config |-> cfg, ret |-> 1]
       ELSE [config |-> [cfg EXCEPT !.sample_cycles =
                                        ToByte(larpix_uart_get_register_data(p))],
             ret |-> 0]

larpix_config_write_test_burst_length(cfg, p, value_chunk) ==
    WriteRegister(p, ToByte(LARPIX_REG_TEST_BURST_LENGTH_LOW + value_chunk),
                  cfg.test_burst_length[value_chunk])

larpix_config_read_test_burst_length(cfg, p) ==
    LET address == ToByte(larpix_uart_get_register(p))
        value   == ToByte(larpix_uart_get_register_data(p))
    IN IF address < LARPIX_REG_TEST_BURST_LENGTH_LOW
          \/ address > LARPIX_REG_TEST_BURST_LENGTH_HIGH
       THEN [config |-> cfg, ret |-> 1]
       ELSE [config |-> [cfg EXCEPT
                 !.test_burst_length[address - LARPIX_REG_TEST_BURST_LENGTH_LOW] = value],
             ret |-> 0]

larpix_config_write_adc_burst_length(cfg, p) ==
    WriteRegister(p, LARPIX_REG_ADC_BURST_LENGTH, cfg.adc_burst_length)

larpix_config_read_adc_burst_length(cfg, p) ==
    LET address == ToByte(larpix_uart_get_register(p))
    IN IF address # LARPIX_REG_ADC_BURST_LENGTH
       THEN [config |-> cfg, ret |-> 1]
       ELSE [config |-> [cfg EXCEPT !.adc_burst_length =
                                        ToByte(larpix_uart_get_register_data(p))],
             ret |-> 0]

larpix_config_write_channel_mask(cfg, p, channel_chunk) ==
    WriteRegister(p, ToByte(LARPIX_REG_CHANNEL_MASK_LOW + channel_chunk),
                  PackChunk(cfg.channel_mask, channel_chunk))

larpix_config_read_channel_mask(cfg, p) ==
    LET address == ToByte(larpix_uart_get_register(p))
        value   == ToByte(larpix_uart_get_register_data(p))
    IN IF address < LARPIX_REG_CHANNEL_MASK_LOW
          \/ address > LARPIX_REG_CHANNEL_MASK_HIGH
       THEN [config |-> cfg, ret |-> 1]
       ELSE [config |-> [cfg EXCEPT !.channel_mask =
                 UnpackChunk(@, address - LARPIX_REG_CHANNEL_MASK_LOW, value)],
             ret |-> 0]

larpix_config_write_external_trigger_mask(cfg, p, channel_chunk) ==
    WriteRegister(p, ToByte(LARPIX_REG_EXTERNAL_TRIGGER_MASK_LOW + channel_chunk),
                  PackChunk(cfg.external_trigger_mask, channel_chunk))

larpix_config_read_external_trigger_mask(cfg, p) ==
    LET address == ToByte(larpix_uart_get_register(p))
        value   == ToByte(larpix_uart_get_register_data(p))
    IN IF address < LARPIX_REG_EXTERNAL_TRIGGER_MASK_LOW
          \/ address > LARPIX_REG_EXTERNAL_TRIGGER_MASK_HIGH
       THEN [config |-> cfg, ret |-> 1]
       ELSE [config |-> [cfg EXCEPT !.external_trigger_mask =
                 UnpackChunk(@, address - LARPIX_REG_EXTERNAL_TRIGGER_MASK_LOW, value)],
             ret |-> 0]

larpix_config_write_reset_cycles(cfg, p, value_chunk) ==
    WriteRegister(p, ToByte(LARPIX_REG_RESET_CYCLES_LOW + value_chunk),
                  cfg.reset_cycles[value_chunk])

\* The store of larpix.c:1174 goes to config->test_burst_length[value_chunk]
\* with value_chunk in 0..2.  test_burst_length has 2 elements: the store with
\* value_chunk = 2 is outside the array (undefined behaviour).  `alias` is the
\* outcome of that store: TRUE when it lands on the byte that follows the
\* array in the struct (adc_burst_length), FALSE when it has no effect on the
\* Configuration.
larpix_config_read_reset_cycles(cfg, p, alias) ==
    LET address     == ToByte(larpix_uart_get_register(p))
        value       == ToByte(larpix_uart_get_register_data(p))
        value_chunk == address - LARPIX_REG_RESET_CYCLES_LOW
    IN IF address < LARPIX_REG_RESET_CYCLES_LOW
          \/ address > LARPIX_REG_RESET_CYCLES_HIGH
       THEN [config |-> cfg, ret |-> 1]
       ELSE [config |->
                 IF value_chunk \in DOMAIN cfg.test_burst_length
                 THEN [cfg EXCEPT !.test_burst_length[value_chunk] = value]
                 ELSE IF alias THEN [cfg EXCEPT !.adc_burst_length = value]
                 ELSE cfg,
             ret |-> 0]

\* the store of larpix.c:1174 for packet p is outside test_burst_length
ResetCyclesStoreOutside(cfg, p) ==
    LET address == ToByte(larpix_uart_get_register(p))
    IN /\ ~(address < LARPIX_REG_RESET_CYCLES_LOW \/ address > LARPIX_REG_RESET_CYCLES_HIGH)
       /\ (address - LARPIX_REG_RESET_CYCLES_LOW) \notin DOMAIN cfg.test_burst_length

(***************************************************************************)
(* larpix_config_write_all / larpix_config_read_all                        *)
(***************************************************************************)
\* The calls of one accessor in write_all and read_all: a loop of n iterations
\* with loop index i = 0..n-1 (n = 1, i = 0 for a call outside a loop).
Loop(accessor, n) == [j \in 1..n |-> [accessor |-> accessor, i |-> j - 1]]

\* The accessor calls of write_all and of read_all in program order; the
\* packet pointer is advanced once after every call, so that the k-th call
\* (k from 0) gets the k-th packet.
AccessorCalls ==
    Loop("pixel_trim_threshold", LARPIX_NUM_CHANNELS)
    \o Loop("global_threshold", 1)
    \o Loop("csa_gain_and_bypasses", 1)
    \o Loop("csa_bypass_select", 4)
    \o Loop("csa_monitor_select", 4)
    \o Loop("csa_testpulse_enable", 4)
    \o Loop("csa_testpulse_dac_amplitude", 1)
    \o Loop("test_mode_xtrig_reset_diag", 1)
    \o Loop("sample_cycles", 1)
    \o Loop("test_burst_length", 2)
    \o Loop("adc_burst_length", 1)
    \o Loop("channel_mask", 4)
    \o Loop("external_trigger_mask", 4)
    \o Loop("reset_cycles", 3)

\* the accessor called on the k-th packet (k from 0) and its loop index i
CallAt(k) == AccessorCalls[k + 1]

\* the write accessor that write_all calls on its k-th packet
WriteCall(cfg, p, k) ==
    LET a == CallAt(k).accessor
        i == CallAt(k).i
    IN CASE a = "pixel_trim_threshold" -> larpix_config_write_pixel_trim_threshold(cfg, p, i)
         [] a = "global_threshold" -> larpix_config_write_global_threshold(cfg, p)
         [] a = "csa_gain_and_bypasses" -> larpix_config_write_csa_gain_and_bypasses(cfg, p)
         [] a = "csa_bypass_select" -> larpix_config_write_csa_bypass_select(cfg, p, i)
         [] a = "csa_monitor_select" -> larpix_config_write_csa_monitor_select(cfg, p, i)
         [] a = "csa_testpulse_enable" -> larpix_config_write_csa_testpulse_enable(cfg, p, i)
         [] a = "csa_testpulse_dac_amplitude" ->
                larpix_config_write_csa_testpulse_dac_amplitude(cfg, p)
         [] a = "test_mode_xtrig_reset_diag" ->
                larpix_config_write_test_mode_xtrig_reset_diag(cfg, p)
         [] a = "sample_cycles" -> larpix_config_write_sample_cycles(cfg, p)
         [] a = "test_burst_length" -> larpix_config_write_test_burst_length(cfg, p, i)
         [] a = "adc_burst_length" -> larpix_config_write_adc_burst_length(cfg, p)
         [] a = "channel_mask" -> larpix_config_write_channel_mask(cfg, p, i)
         [] a = "external_trigger_mask" -> larpix_config_write_external_trigger_mask(cfg, p, i)
         [] a = "reset_cycles" -> larpix_config_write_reset_cycles(cfg, p, i)

\* the read accessor that read_all calls on its k-th packet
ReadCall(cfg, p, k, alias) ==
    LET a == CallAt(k).accessor
        i == CallAt(k).i
    IN CASE a = "pixel_trim_threshold" -> larpix_config_read_pixel_trim_threshold(cfg, p, i)
         [] a = "global_threshold" -> larpix_config_read_global_threshold(cfg, p)
         [] a = "csa_gain_and_bypasses" -> larpix_config_read_csa_gain_and_bypasses(cfg, p)
         [] a = "csa_bypass_select" -> larpix_config_read_csa_bypass_select(cfg, p)
         [] a = "csa_monitor_select" -> larpix_config_read_csa_monitor_select(cfg, p)
         [] a = "csa_testpulse_enable" -> larpix_config_read_csa_testpulse_enable(cfg, p)
         [] a = "csa_testpulse_dac_amplitude" ->
                larpix_config_read_csa_testpulse_dac_amplitude(cfg, p)
         [] a = "test_mode_xtrig_reset_diag" ->
                larpix_config_read_test_mode_xtrig_reset_diag(cfg, p)
         [] a = "sample_cycles" -> larpix_config_read_sample_cycles(cfg, p)
         [] a = "test_burst_length" -> larpix_config_read_test_burst_length(cfg, p)
         [] a = "adc_burst_length" -> larpix_config_read_adc_burst_length(cfg, p)
         [] a = "channel_mask" -> larpix_config_read_channel_mask(cfg, p)
         [] a = "external_trigger_mask" -> larpix_config_read_external_trigger_mask(cfg, p)
         [] a = "reset_cycles" -> larpix_config_read_reset_cycles(cfg, p, alias)

\* write_all: the k-th packet is handed to the k-th accessor call
larpix_config_write_all(cfg, pkts) ==
    [k \in 0..(LARPIX_NUM_CONFIG_REGISTERS - 1) |-> WriteCall(cfg, pkts[k], k)]

\* `status += accessor(config, packet)`: acc holds the Configuration and the
\* status so far, r is what the accessor returns
Accumulate(acc, r) == [config |-> r.config, ret |-> UintAdd(acc.ret, r.ret)]

\* A loop of read_all, `for(i = 0; i < n; ++i) { status += accessor(config,
\* packet); ++packet; }`, from iteration i on; the packet of iteration 0 is
\* the k-th packet of the array.
RECURSIVE ReadLoop(_, _, _, _, _, _)
ReadLoop(acc, pkts, k, i, n, alias) ==
    IF ~(i < n) THEN acc
    ELSE LET r == ReadCall(acc.config, pkts[k + i], k + i, alias)
         IN IF r.ret = 0   \* status += 0
            THEN ReadLoop([acc EXCEPT !.config = r.config], pkts, k, i + 1, n, alias)
            ELSE ReadLoop(Accumulate(acc, r), pkts, k, i + 1, n, alias)

\* The first loop of read_all (larpix.c:695-699).  Iteration i reads packet i
\* and writes pixel_trim_thresholds[i] only, so the iterations do not depend
\* on one another and the loop is evaluated element by element.
ReadPixelTrimLoop(acc, pkts, alias) ==
    LET each == [i \in Channels |->
                    larpix_config_read_pixel_trim_threshold(acc.config, pkts[i], i)]
        failed == {i \in Channels : each[i].ret # 0}
    IN [config |-> [acc.config EXCEPT !.pixel_trim_thresholds =
                        [i \in Channels |-> each[i].config.pixel_trim_thresholds[i]]],
        ret |-> UintAdd(acc.ret, Cardinality(failed))]

\* The loops and calls of read_all after the first loop (larpix.c:700-746),
\* in order: k is the index of the packet the pointer has reached, n the
\* number of iterations (1 for a call outside a loop).
ReadAllLoops ==
    << [k |-> 32, n |-> 1],    \* global_threshold
       [k |-> 33, n |-> 1],    \* csa_gain_and_bypasses
       [k |-> 34, n |-> 4],    \* csa_bypass_select
       [k |-> 38, n |-> 4],    \* csa_monitor_select
       [k |-> 42, n |-> 4],    \* csa_testpulse_enable
       [k |-> 46, n |-> 1],    \* csa_testpulse_dac_amplitude
       [k |-> 47, n |-> 1],    \* test_mode_xtrig_reset_diag
       [k |-> 48, n |-> 1],    \* sample_cycles
       [k |-> 49, n |-> 2],    \* test_burst_length
       [k |-> 51, n |-> 1],    \* adc_burst_length
       [k |-> 52, n |-> 4],    \* channel_mask
       [k |-> 56, n |-> 4],    \* external_trigger_mask
       [k |-> 60, n |-> 3] >>  \* reset_cycles

RECURSIVE ReadAllFrom(_, _, _, _)
ReadAllFrom(acc, pkts, s, alias) ==
    IF s > Len(ReadAllLoops) THEN acc
    ELSE ReadAllFrom(ReadLoop(acc, pkts, ReadAllLoops[s].k, 0, ReadAllLoops[s].n, alias),
                     pkts, s + 1, alias)

\* read_all (larpix.c:693-747): status starts at 0, every accessor is called
\* whatever the earlier ones returned, and the summed status is returned
larpix_config_read_all(cfg, pkts, alias) ==
    ReadAllFrom(ReadPixelTrimLoop([config |-> cfg, ret |-> 0], pkts, alias), pkts, 1, alias)

(***************************************************************************)
(* Inputs of the configuration register map                                *)
(***************************************************************************)
\* number of Configurations, besides the defaults, that the caller may hold
NumConfigSeeds == 1
\* largest seed of the contents of memory that was never initialised
MaxGarbageSeed == 2
\* number of larpix_uart_set_register calls the caller makes on written packets
MaxEdits == 2

\* A Configuration whose fields all fit their declared widths (8-bit
\* registers, 1-bit flags, 2-bit test_mode), different for every seed s >= 1.
SeededConfig(s) ==
    [ pixel_trim_thresholds       |-> [i \in Channels |-> (i * 8 + s * 37) % 256],
      global_threshold            |-> (s * 77) % 256,
      csa_gain                    |-> s % 2,
      csa_bypass                  |-> (s + 1) % 2,
      internal_bypass             |-> (s \div 2) % 2,
      csa_bypass_select           |-> [i \in Channels |-> (i + s) % 2],
      csa_monitor_select          |-> [i \in Channels |-> ((i \div 2) + s) % 2],
      csa_testpulse_enable        |-> [i \in Channels |-> ((i \div 3) + s) % 2],
      csa_testpulse_dac_amplitude |-> (s * 101) % 256,
      test_mode                   |-> (s + 1) % 4,
      cross_trigger_mode          |-> s % 2,
      periodic_reset              |-> (s + 1) % 2,
      fifo_diagnostic             |-> s % 2,
      sample_cycles               |-> (s * 59) % 256,
      test_burst_length           |-> [i \in 0..1 |-> (s * 11 + i * 200) % 256],
      adc_burst_length            |-> (s * 23 + 5) % 256,
      channel_mask                |-> [i \in Channels |-> ((i \div 5) + s) % 2],
      external_trigger_mask       |-> [i \in Channels |-> ((i * i) + s) % 2],
      reset_cycles                |-> [i \in 0..2 |-> (s * 13 + i * 100 + 1) % 256] ]

ConfigInputs ==
    {larpix_config_init_defaults} \cup {SeededConfig(s) : s \in 1..NumConfigSeeds}

\* the fields of cfg fit their declared widths
FitsWidths(cfg) ==
    /\ \A i \in Channels :
          /\ cfg.pixel_trim_thresholds[i] \in 0..255
          /\ cfg.csa_bypass_select[i] \in 0..1
          /\ cfg.csa_monitor_select[i] \in 0..1
          /\ cfg.csa_testpulse_enable[i] \in 0..1
          /\ cfg.channel_mask[i] \in 0..1
          /\ cfg.external_trigger_mask[i] \in 0..1
    /\ cfg.csa_gain \in 0..1 /\ cfg.csa_bypass \in 0..1 /\ cfg.internal_bypass \in 0..1
    /\ cfg.test_mode \in 0..3 /\ cfg.cross_trigger_mode \in 0..1
    /\ cfg.periodic_reset \in 0..1 /\ cfg.fifo_diagnostic \in 0..1

\* sample j of a larpix_uart_packet that was declared and never initialised
\* (larpix_uart_packet packets[...]; in test_write_all, larpix_uart_packet p;
\* in main.c): any byte.  Seed g decides which samples are zero.
GarbageSample(g, j) ==
    IF BitOf(g, j % 3) = 1 THEN 1 + ((g * j * 37) % 255) ELSE 0

GarbagePacket(g) == [j \in 0..(LARPIX_UART_SIZE - 1) |-> GarbageSample(g, j)]

\* a larpix_configuration that was declared and never initialised
\* (larpix_configuration c2; in test_read_all): every byte is (85 * g) % 256
UninitConfig(g) ==
    LET b == (85 * g) % 256
    IN [ pixel_trim_thresholds       |-> [i \in Channels |-> b],
         global_threshold            |-> b,
         csa_gain                    |-> b,
         csa_bypass                  |-> b,
         internal_bypass             |-> b,
         csa_bypass_select           |-> [i \in Channels |-> b],
         csa_monitor_select          |-> [i \in Channels |-> b],
         csa_testpulse_enable        |-> [i \in Channels |-> b],
         csa_testpulse_dac_amplitude |-> b,
         test_mode                   |-> b,
         cross_trigger_mode          |-> b,
         periodic_reset              |-> b,
         fifo_diagnostic             |-> b,
         sample_cycles               |-> b,
         test_burst_length           |-> [i \in 0..1 |-> b],
         adc_burst_length            |-> b,
         channel_mask                |-> [i \in Channels |-> b],
         external_trigger_mask       |-> [i \in Channels |-> b],
         reset_cycles                |-> [i \in 0..2 |-> b] ]

\* packets the caller re-addresses after write_all, and the addresses it uses
EditPositions == {0, 34, 35}
EditAddresses == {34, 35, 63}
\* packets handed to a single larpix_config_read_reset_cycles call
ResetCyclesPositions == {50, 60, 61, 62}

\* an object that the caller of this scenario has not created
NoObject == <<>>

(***************************************************************************)
(* Scenario 1: the configuration register map.                             *)
(*   larpix_configuration c, c2; larpix_uart_packet packets[63];           *)
(*   write_all(&c, packets); set_register(packets + k, a) ...;             *)
(*   then read_all(&c2, packets) or read_reset_cycles(&c2, packets + k)    *)
(***************************************************************************)
InitConfig ==
    /\ op = "init"
    /\ calls = 0
    /\ config \in ConfigInputs
    /\ \E g \in 0..MaxGarbageSeed :
          /\ packets = [k \in 0..(LARPIX_NUM_CONFIG_REGISTERS - 1) |-> GarbagePacket(g)]
          /\ config2 = UninitConfig(g)
    /\ status = 0
    /\ packet = NoObject
    /\ out = NoObject
    /\ data = NoObject
    /\ ret = 0
    /\ arg = [k |-> 0, v |-> 0]
    /\ oob = FALSE

\* larpix_config_write_all(&config, packets)
ConfigWriteAll ==
    /\ op = "init"
    /\ packets' = larpix_config_write_all(config, packets)
    /\ op' = "write_all"
    /\ calls' = calls + 1
    /\ arg' = [k |-> 0, v |-> 0]
    /\ UNCHANGED <<config, config2, status, packet, out, data, ret, oob>>

\* larpix_uart_set_register(packets + k, a) by the caller, on written packets
ConfigSetRegister(k, a) ==
    /\ op \in {"write_all", "set_register"}
    /\ calls < 1 + MaxEdits
    /\ packets' = [packets EXCEPT ![k] = larpix_uart_set_register(@, a)]
    /\ op' = "set_register"
    /\ calls' = calls + 1
    /\ arg' = [k |-> k, v |-> a]
    /\ UNCHANGED <<config, config2, status, packet, out, data, ret, oob>>

\* status = larpix_config_read_all(&config2, packets)
ConfigReadAll(alias) ==
    /\ op \in {"write_all", "set_register"}
    /\ LET r == larpix_config_read_all(config2, packets, alias)
       IN /\ config2' = r.config
          /\ status' = r.ret
          /\ oob' = (oob \/ \E k \in 0..(LARPIX_NUM_CONFIG_REGISTERS - 1) :
                                /\ CallAt(k).accessor = "reset_cycles"
                                /\ ResetCyclesStoreOutside(config2, packets[k]))
    /\ op' = "read_all"
    /\ calls' = calls + 1
    /\ arg' = [k |-> 0, v |-> 0]
    /\ UNCHANGED <<config, packets, packet, out, data, ret>>

\* status = larpix_config_read_reset_cycles(&config2, packets + k)
ConfigReadResetCycles(k, alias) ==
    /\ op \in {"write_all", "set_register"}
    /\ LET r == larpix_config_read_reset_cycles(config2, packets[k], alias)
       IN /\ config2' = r.config
          /\ status' = r.ret
          /\ oob' = (oob \/ ResetCyclesStoreOutside(config2, packets[k]))
    /\ op' = "read_reset_cycles"
    /\ calls' = calls + 1
    /\ arg' = [k |-> k, v |-> 0]
    /\ UNCHANGED <<config, packets, packet, out, data, ret>>

NextConfig ==
    \/ ConfigWriteAll
    \/ \E k \in EditPositions, a \in EditAddresses : ConfigSetRegister(k, a)
    \/ \E alias \in BOOLEAN : ConfigReadAll(alias)
    \/ \E k \in ResetCyclesPositions, alias \in BOOLEAN : ConfigReadResetCycles(k, alias)

SpecConfig == InitConfig /\ [][NextConfig]_vars

(***************************************************************************)
(* Properties of the configuration register map (checked under SpecConfig) *)
(***************************************************************************)
Positions == 0..(LARPIX_NUM_CONFIG_REGISTERS - 1)

\* the register addresses that the accessor called on the k-th packet accepts
AcceptedAddresses(k) ==
    LET a == CallAt(k).accessor
    IN CASE a = "pixel_trim_threshold" ->
                {LARPIX_REG_PIXEL_TRIM_THRESHOLD_LOW + CallAt(k).i}
         [] a = "global_threshold" -> {LARPIX_REG_GLOBAL_THRESHOLD}
         [] a = "csa_gain_and_bypasses" -> {LARPIX_REG_CSA_GAIN_AND_BYPASSES}
         [] a = "csa_bypass_select" ->
                LARPIX_REG_CSA_BYPASS_SELECT_LOW..LARPIX_REG_CSA_BYPASS_SELECT_HIGH
         [] a = "csa_monitor_select" ->
                LARPIX_REG_CSA_MONITOR_SELECT_LOW..LARPIX_REG_CSA_MONITOR_SELECT_HIGH
         [] a = "csa_testpulse_enable" ->
                LARPIX_REG_CSA_TESTPULSE_ENABLE_LOW..LARPIX_REG_CSA_TESTPULSE_ENABLE_HIGH
         [] a = "csa_testpulse_dac_amplitude" -> {LARPIX_REG_CSA_TESTPULSE_DAC_AMPLITUDE}
         [] a = "test_mode_xtrig_reset_diag" -> {LARPIX_REG_TEST_MODE_XTRIG_RESET_DIAG}
         [] a = "sample_cycles" -> {LARPIX_REG_SAMPLE_CYCLES}
         [] a = "test_burst_length" ->
                LARPIX_REG_TEST_BURST_LENGTH_LOW..LARPIX_REG_TEST_BURST_LENGTH_HIGH
         [] a = "adc_burst_length" -> {LARPIX_REG_ADC_BURST_LENGTH}
         [] a = "channel_mask" -> LARPIX_REG_CHANNEL_MASK_LOW..LARPIX_REG_CHANNEL_MASK_HIGH
         [] a = "external_trigger_mask" ->
                LARPIX_REG_EXTERNAL_TRIGGER_MASK_LOW..LARPIX_REG_EXTERNAL_TRIGGER_MASK_HIGH
         [] a = "reset_cycles" -> LARPIX_REG_RESET_CYCLES_LOW..LARPIX_REG_RESET_CYCLES_HIGH

\* the packets are those that write_all produced, untouched since
FreshlyWritten == calls = 2

\* C1 (as claimed): for a Configuration C whose fields fit their widths,
\* read_all of the 63 packets of write_all(C) into a fresh Configuration
\* yields a Configuration equal to C in every field.
C1_RoundTripLossless ==
    (op = "read_all" /\ FreshlyWritten /\ FitsWidths(config)) => config2 = config

\* C3 (as claimed): read_all returns a non-zero status whenever at least one
\* packet carries a register address different from its position, swapped
\* packets of one multi-register field included.
C3_AnyMismatchDetected ==
    op = "read_all" =>
        ((\E k \in Positions : larpix_uart_get_register(packets[k]) # k) => status # 0)

\* C3 (amended): read_all returns a non-zero status exactly when at least one
\* packet carries an address that the accessor called at its position does
\* not accept: an address other than the position's for the pixel trim
\* thresholds and the single-register fields, an address outside LOW..HIGH
\* of the field for the multi-register fields.
C3_OutOfRangeDetected ==
    op = "read_all" =>
        ((\E k \in Positions : larpix_uart_get_register(packets[k]) \notin AcceptedAddresses(k))
            <=> status # 0)

\* C3 witness: read_all has run on a stream where the packet at position 34
\* carries address 63, and on return the status is not 0.
C3_Witness ==
    /\ op = "read_all"
    /\ larpix_uart_get_register(packets[34]) = 63
    /\ status # 0

\* C4 (as claimed): read_reset_cycles on a packet with the k-th reset-cycles
\* address and data v stores v into reset_cycles[k] and leaves
\* test_burst_length unchanged.
C4_ResetCyclesDecoded ==
    [][ (op' = "read_reset_cycles"
         /\ larpix_uart_get_register(packets[arg'.k]) \in
                LARPIX_REG_RESET_CYCLES_LOW..LARPIX_REG_RESET_CYCLES_HIGH)
        => /\ config2'.reset_cycles[larpix_uart_get_register(packets[arg'.k])
                                    - LARPIX_REG_RESET_CYCLES_LOW]
                  = larpix_uart_get_register_data(packets[arg'.k])
           /\ config2'.test_burst_length = config2.test_burst_length ]_vars

\* C5 (as claimed): after write_all every one of the 63 packets has packet
\* type ConfigWrite, whatever the packets held before the call.
C5_AllConfigWrite ==
    op = "write_all" =>
        \A k \in Positions :
            larpix_uart_get_packet_type(packets[k]) = LARPIX_PACKET_CONFIG_WRITE

\* C5 (amended): write_all leaves the packet type of every packet as it was
\* before the call.
C5_PacketTypeKept ==
    [][ op' = "write_all" =>
            \A k \in Positions :
                larpix_uart_get_packet_type(packets'[k])
                    = larpix_uart_get_packet_type(packets[k]) ]_vars

\* C5 witness: write_all has run and its first packet is still a Data packet,
\* while it carries register address 0 and the first pixel trim threshold.
C5_Witness ==
    /\ op = "write_all"
    /\ larpix_uart_get_packet_type(packets[0]) = LARPIX_PACKET_DATA
    /\ larpix_uart_get_register_data(packets[0]) = config.pixel_trim_thresholds[0]

\* C6: after write_all, the i-th packet carries register address i, for
\* every i in 0..62.
C6_AddressesInOrder ==
    op = "write_all" =>
        \A k \in Positions : larpix_uart_get_register(packets[k]) = k

\* C6 witness: write_all has run on packets that held garbage before, and
\* the last packet carries address 62.
C6_Witness ==
    /\ op = "write_all"
    /\ packets[62][0] # 0
    /\ larpix_uart_get_register(packets[62]) = 62

(***************************************************************************)
(* Scenario 2: one UART packet and its accessors.                          *)
(*   larpix_uart_packet p; (larpix_uart_init_zeros(&p);)                   *)
(*   larpix_uart_set_...(&p, v); ... larpix_uart_set_parity(&p);           *)
(*   larpix_uart_compute_parity(&p); larpix_uart_check_parity(&p);         *)
(***************************************************************************)
\* number of accessor calls the caller makes on the packet
MaxUartCalls == 3

PacketTypeInputs == {LARPIX_PACKET_DATA, LARPIX_PACKET_TEST,
                     LARPIX_PACKET_CONFIG_WRITE, LARPIX_PACKET_CONFIG_READ}
ChipidInputs == {255, 376}
DatawordInputs == {512, 1537}
FlagInputs == {0, 1, 2}

\* the packet is zeroed, or declared and never initialised
UartInputs == {larpix_uart_init_zeros} \cup {GarbagePacket(g) : g \in 0..MaxGarbageSeed}

InitUart ==
    /\ op = "init"
    /\ calls = 0
    /\ packet \in UartInputs
    /\ config = NoObject
    /\ packets = NoObject
    /\ config2 = NoObject
    /\ status = 0
    /\ out = NoObject
    /\ data = NoObject
    /\ ret = 0
    /\ arg = [k |-> 0, v |-> 0]
    /\ oob = FALSE

\* a call of a void accessor that stores into the packet
UartStore(name, v, p) ==
    /\ op # "fault"
    /\ calls < MaxUartCalls
    /\ packet' = p
    /\ op' = name
    /\ calls' = calls + 1
    /\ arg' = [k |-> 0, v |-> v]
    /\ UNCHANGED <<config, packets, config2, status, out, data, ret, oob>>

\* a call of an accessor that returns a value and leaves the packet alone
UartReturn(name, r) ==
    /\ op # "fault"
    /\ calls < MaxUartCalls
    /\ ret' = r
    /\ op' = name
    /\ calls' = calls + 1
    /\ arg' = [k |-> 0, v |-> 0]
    /\ UNCHANGED <<config, packets, config2, status, packet, out, data, oob>>

UartSetPacketType(type) ==
    UartStore("set_packet_type", type, larpix_uart_set_packet_type(packet, type))

UartSetChipid(chipid) ==
    UartStore("set_chipid", chipid, larpix_uart_set_chipid(packet, chipid))

UartSetDataword(dataword) ==
    UartStore("set_dataword", dataword, larpix_uart_set_dataword(packet, dataword))

UartSetFifoFullFlag(flag) ==
    UartStore("set_fifofullflag", flag, larpix_uart_set_fifofullflag(packet, flag))

UartForceSetParity(parity) ==
    UartStore("force_set_parity", parity, larpix_uart_force_set_parity(packet, parity))

UartSetChannelid(channelid) ==
    UartStore("set_channelid", channelid, larpix_uart_set_channelid(packet, channelid))

UartSetTimestamp(timestamp) ==
    UartStore("set_timestamp", timestamp, larpix_uart_set_timestamp(packet, timestamp))

UartSetFifoHalfFlag(flag) ==
    UartStore("set_fifohalfflag", flag, larpix_uart_set_fifohalfflag(packet, flag))

UartSetRegister(address) ==
    UartStore("set_register", address, larpix_uart_set_register(packet, address))

UartSetRegisterData(value) ==
    UartStore("set_register_data", value, larpix_uart_set_register_data(packet, value))

UartGetTestCounter == UartReturn("get_test_counter", larpix_uart_get_test_counter(packet))

UartSetParity == UartStore("set_parity", 0, larpix_uart_set_parity(packet))

UartComputeParity == UartReturn("compute_parity", larpix_uart_compute_parity(packet))

UartCheckParity == UartReturn("check_parity", larpix_uart_check_parity(packet))

NextUart ==
    \/ \E type \in PacketTypeInputs : UartSetPacketType(type)
    \/ \E chipid \in ChipidInputs : UartSetChipid(chipid)
    \/ \E dataword \in DatawordInputs : UartSetDataword(dataword)
    \/ \E flag \in FlagInputs : UartSetFifoFullFlag(flag)
    \/ \E parity \in FlagInputs : UartForceSetParity(parity)
    \/ UartSetParity
    \/ UartComputeParity
    \/ UartCheckParity
    \/ \E channelid \in {1, 192} : UartSetChannelid(channelid)
    \/ \E timestamp \in {16777215, 16777218} : UartSetTimestamp(timestamp)
    \/ \E flag \in FlagInputs : UartSetFifoHalfFlag(flag)
    \/ \E address \in {LARPIX_REG_CSA_GAIN_AND_BYPASSES, 289} : UartSetRegister(address)
    \/ \E value \in {129, 257} : UartSetRegisterData(value)
    \/ UartGetTestCounter

SpecUart == InitUart /\ [][NextUart]_vars

(***************************************************************************)
(* Properties of the parity accessors (checked under SpecUart)             *)
(***************************************************************************)
\* every sample of p is 0 or 1
Binary(p) == \A i \in DOMAIN p : p[i] \in {0, 1}

\* the number of samples equal to 1 among indices 0..52
OnesBeforeParity(p) == Cardinality({i \in 0..(LARPIX_UART_PARITY - 1) : p[i] = 1})

BitChannels == 0..(LARPIX_NUM_BIT_CHANNELS - 1)
Samples == 0..(LARPIX_BUFFER_SIZE - 1)

larpix_data_init_high == [bit_position \in BitChannels |-> [i \in Samples |-> 1]]

larpix_data_init_low == [bit_position \in BitChannels |-> [i \in Samples |-> 0]]

\* bits[bit_position][index] is an element of the buffer
InBounds(bit_position, index) == bit_position \in BitChannels /\ index \in Samples

\* What an access outside the buffer does (undefined behaviour):
\*   "wrap"  : it goes to the address bits[0] + bit_position * 1024 + index
\*             with the index taken as a signed 32-bit number, which is an
\*             element of the buffer when it lies in bits[0][0]..bits[7][1023];
\*   "miss"  : it goes to memory that is not the buffer (a store leaves the
\*             buffer alone, a load yields an arbitrary byte);
\*   "fault" : the process is stopped, the call does not return.
UBOutcomes == {"wrap", "miss", "fault"}

\* FrameSample with a stop bit of 0
FrameSample_StopLow(p, k) ==
    LET size_in_buffer == (LARPIX_UART_SIZE + 2) * LARPIX_BITS_PER_BAUD
    IN IF k < LARPIX_BITS_PER_BAUD THEN 0
       ELSE IF k > size_in_buffer - LARPIX_BITS_PER_BAUD - 1 THEN 0
       ELSE p[(k \div LARPIX_BITS_PER_BAUD) - 1]

\* the byte that larpix_uart_to_data stores k samples after startbit: the
\* start bit in the first LARPIX_BITS_PER_BAUD samples, the stop bit in the
\* last, packet->data[i] raw at k = (i + 1) * BPB + j
FrameSample(p, k) ==
    LET size_in_buffer == (LARPIX_UART_SIZE + 2) * LARPIX_BITS_PER_BAUD
    IN IF k < LARPIX_BITS_PER_BAUD THEN 0
       ELSE IF k > size_in_buffer - LARPIX_BITS_PER_BAUD - 1 THEN 1
       ELSE p[(k \div LARPIX_BITS_PER_BAUD) - 1]

\* the buffer after the stores of larpix_uart_to_data (larpix.c:322-336)
StoreFrame(d, p, bit_position, startbit, ub) ==
    LET size_in_buffer == (LARPIX_UART_SIZE + 2) * LARPIX_BITS_PER_BAUD
        first == bit_position * LARPIX_BUFFER_SIZE + startbit
    IN [c \in BitChannels |->
          IF (c + 1) * LARPIX_BUFFER_SIZE - 1 < first
             \/ c * LARPIX_BUFFER_SIZE > first + size_in_buffer - 1
          THEN d[c]
          ELSE [i \in Samples |->
                   IF /\ (c * LARPIX_BUFFER_SIZE + i - first) \in 0..(size_in_buffer - 1)
                      /\ \/ c = bit_position   \* the store is to bits[bit_position][i]
                         \/ ub = "wrap"
                   THEN FrameSample(p, c * LARPIX_BUFFER_SIZE + i - first)
                   ELSE d[c][i]]]

larpix_uart_to_data(p, d, bit_position, startbit, ub) ==
    LET size_in_buffer == (LARPIX_UART_SIZE + 2) * LARPIX_BITS_PER_BAUD
    IN IF UintGreater(UintAdd(startbit, size_in_buffer), LARPIX_BUFFER_SIZE)
       THEN [data |-> d, ret |-> 1, oob |-> FALSE, fault |-> FALSE]
       ELSE IF \A k \in 0..(size_in_buffer - 1) :
                   InBounds(bit_position, UintAdd(startbit, k))
       THEN [data |-> StoreFrame(d, p, bit_position, startbit, ub),
             ret |-> 0, oob |-> FALSE, fault |-> FALSE]
       ELSE IF ub = "fault"
       THEN [data |-> d, ret |-> 0, oob |-> TRUE, fault |-> TRUE]
       ELSE [data |-> StoreFrame(d, p, bit_position, startbit, ub),
             ret |-> 0, oob |-> TRUE, fault |-> FALSE]

\* packet->data[i] = bit_channel[startbit + i + 1] (larpix.c:349-353); g
\* seeds the bytes that loads outside the buffer yield
LoadFrame(d, bit_position, startbit, ub, g) ==
    [i \in 0..(LARPIX_UART_SIZE - 1) |->
        IF InBounds(bit_position, UintAdd(UintAdd(startbit, i), 1))
        THEN d[bit_position][UintAdd(UintAdd(startbit, i), 1)]
        ELSE IF /\ ub = "wrap"
                /\ (bit_position * LARPIX_BUFFER_SIZE + startbit + i + 1)
                       \in 0..(LARPIX_NUM_BIT_CHANNELS * LARPIX_BUFFER_SIZE - 1)
        THEN d[(bit_position * LARPIX_BUFFER_SIZE + startbit + i + 1) \div LARPIX_BUFFER_SIZE]
              [(bit_position * LARPIX_BUFFER_SIZE + startbit + i + 1) % LARPIX_BUFFER_SIZE]
        ELSE GarbageSample(g, i)]

larpix_data_to_uart(q, d, bit_position, startbit, ub, g) ==
    IF UintGreater(UintAdd(UintAdd(startbit, LARPIX_UART_SIZE), 2), LARPIX_BUFFER_SIZE)
    THEN [packet |-> q, ret |-> 1, oob |-> FALSE, fault |-> FALSE]
    ELSE IF \A i \in 0..(LARPIX_UART_SIZE - 1) :
                InBounds(bit_position, UintAdd(UintAdd(startbit, i), 1))
    THEN [packet |-> LoadFrame(d, bit_position, startbit, ub, g),
          ret |-> 0, oob |-> FALSE, fault |-> FALSE]
    ELSE IF ub = "fault"
    THEN [packet |-> q, ret |-> 0, oob |-> TRUE, fault |-> TRUE]
    ELSE [packet |-> LoadFrame(d, bit_position, startbit, ub, g),
          ret |-> 0, oob |-> TRUE, fault |-> FALSE]

(***************************************************************************)
(* Scenario 3: framing a packet into the buffer and extracting it.         *)
(*   larpix_uart_packet p, q; larpix_data data;                            *)
(*   larpix_data_init_high(&data) or larpix_data_init_low(&data);          *)
(*   larpix_uart_to_data(&p, &data, c, o);                                 *)
(*   larpix_data_to_uart(&q, &data, c2, o2);                               *)
(***************************************************************************)
\* the largest value of a uint, 2^32 - 1, as its two's-complement representative
UINT_MAX == -1

\* a valid channel, and the first index past the channels
FrameChannels == {1, LARPIX_NUM_BIT_CHANNELS}

\* start offsets: the first and last that fit a frame, the first that does
\* not, the last sample, and two for which startbit + 224 wraps around
FrameStartBits == {0, 800, 801, 1023, UINT_MAX - 223, UINT_MAX}

\* a packet the caller has filled through the accessors
FilledPacket ==
    larpix_uart_set_parity(
        larpix_uart_set_register_data(
            larpix_uart_set_register(
                larpix_uart_set_chipid(
                    larpix_uart_set_packet_type(GarbagePacket(0), LARPIX_PACKET_CONFIG_WRITE),
                    5),
                LARPIX_REG_CSA_GAIN_AND_BYPASSES),
            129))

FramePackets == {FilledPacket} \cup {GarbagePacket(g) : g \in 0..MaxGarbageSeed}

InitFraming ==
    /\ op = "init"
    /\ calls = 0
    /\ packet \in FramePackets
    /\ data \in {larpix_data_init_high, larpix_data_init_low}
    /\ out = GarbagePacket(MaxGarbageSeed)
    /\ config = NoObject
    /\ packets = NoObject
    /\ config2 = NoObject
    /\ status = 0
    /\ ret = 0
    /\ arg = [bit_position |-> 0, startbit |-> 0]
    /\ oob = FALSE

\* ret = larpix_uart_to_data(&packet, &data, bit_position, startbit)
FrameUartToData(bit_position, startbit, ub) ==
    /\ op = "init"
    /\ LET r == larpix_uart_to_data(packet, data, bit_position, startbit, ub)
       IN /\ data' = r.data
          /\ ret' = IF r.fault THEN ret ELSE r.ret
          /\ op' = IF r.fault THEN "fault" ELSE "uart_to_data"
          /\ oob' = (oob \/ r.oob)
    /\ calls' = calls + 1
    /\ arg' = [bit_position |-> bit_position, startbit |-> startbit]
    /\ UNCHANGED <<config, packets, config2, status, packet, out>>

\* ret = larpix_data_to_uart(&out, &data, bit_position, startbit)
FrameDataToUart(bit_position, startbit, ub, g) ==
    /\ op = "uart_to_data"
    /\ LET r == larpix_data_to_uart(out, data, bit_position, startbit, ub, g)
       IN /\ out' = r.packet
          /\ ret' = IF r.fault THEN ret ELSE r.ret
          /\ op' = IF r.fault THEN "fault" ELSE "data_to_uart"
          /\ oob' = (oob \/ r.oob)
    /\ calls' = calls + 1
    /\ arg' = [bit_position |-> bit_position, startbit |-> startbit]
    /\ UNCHANGED <<config, packets, config2, status, packet, data>>

NextFraming ==
    \/ \E bit_position \in FrameChannels, startbit \in FrameStartBits, ub \in UBOutcomes :
          FrameUartToData(bit_position, startbit, ub)
    \/ \E bit_position \in FrameChannels, startbit \in FrameStartBits, ub \in UBOutcomes,
          g \in 0..MaxGarbageSeed :
          FrameDataToUart(bit_position, startbit, ub, g)

SpecFraming == InitFraming /\ [][NextFraming]_vars

(***************************************************************************)
(* Properties of the framing (checked under SpecFraming)                   *)
(***************************************************************************)
\* the start offset, a uint, plus the footprint of a frame exceeds the
\* length of a channel
FrameExceeds(startbit) ==
    \/ startbit < 0     \* 2^31 or more
    \/ startbit + (LARPIX_UART_SIZE + 2) * LARPIX_BITS_PER_BAUD > LARPIX_BUFFER_SIZE

\* C2 (as claimed): for a packet P, a channel c in 0..7 and a start offset o
\* that larpix_uart_to_data accepts, larpix_uart_to_data(P, buf, c, o)
\* followed by larpix_data_to_uart(Q, buf, c, o) yields Q equal to P in all
\* 54 samples (stated for the calls that stay inside the buffer).
C2_FramingRoundTrip ==
    [][ (/\ op = "uart_to_data" /\ ret = 0
         /\ arg.bit_position \in BitChannels
         /\ op' = "data_to_uart" /\ arg' = arg /\ ~oob')
        => out' = packet ]_vars

\* C9 (as claimed): larpix_uart_to_data returns a non-zero error exactly when
\* the start offset plus (54 + 2) * bits_per_baud exceeds 1024, and then
\* modifies no sample of the buffer; otherwise it returns 0.
C9_FootprintChecked ==
    [][ (op = "init" /\ op' # "init" /\ arg'.bit_position \in BitChannels)
        => IF FrameExceeds(arg'.startbit)
           THEN op' = "uart_to_data" /\ ret' # 0 /\ data' = data
           ELSE op' = "uart_to_data" /\ ret' = 0 ]_vars

\* C10 (as claimed): larpix_uart_to_data and larpix_data_to_uart called with
\* a channel index of 8 or more return a failure code and write neither the
\* buffer nor the packet.
C10_ChannelChecked ==
    [][ (op' # op /\ arg'.bit_position > LARPIX_NUM_BIT_CHANNELS - 1)
        => /\ op' \in {"uart_to_data", "data_to_uart"}
           /\ ret' # 0
           /\ data' = data
           /\ out' = out
           /\ oob' = oob ]_vars

(***************************************************************************)
(* Scenario 4: one read accessor on one packet.                            *)
(*   larpix_configuration c; larpix_uart_packet p;                         *)
(*   larpix_uart_set_register(&p, a); larpix_uart_set_register_data(&p, v);*)
(*   or larpix_config_write_...(&c, &p);                                   *)
(*   status = larpix_config_read_...(&c, &p);                              *)
(***************************************************************************)
\* largest register address the caller stores besides 255
MaxAddress == 64

\* the Configuration is one of ConfigInputs, or the default one with one
\* field of a shared register set to a value wider than the field
InitAccessor ==
    /\ op = "init"
    /\ calls = 0
    /\ config \in ConfigInputs \cup
                   { [larpix_config_init_defaults EXCEPT !.csa_gain = 2],
                     [larpix_config_init_defaults EXCEPT !.test_mode = 4],
                     [larpix_config_init_defaults EXCEPT !.fifo_diagnostic = 3],
                     [larpix_config_init_defaults EXCEPT !.channel_mask[9] = 2] }
    /\ \E g \in 0..MaxGarbageSeed, a \in (0..MaxAddress) \cup {255}, v \in {0, 129, 255} :
          packet = WriteRegister(GarbagePacket(g), a, v)
    /\ packets = NoObject
    /\ config2 = NoObject
    /\ status = 0
    /\ out = NoObject
    /\ data = NoObject
    /\ ret = 0
    /\ arg = [k |-> 0, v |-> 0]
    /\ oob = FALSE

\* status = accessor(&config, &packet), for the read accessor that read_all
\* calls on its k-th packet (with channelid = k for the pixel trim thresholds)
AccessorRead(k, alias) ==
    /\ op \in {"init", "write_accessor"}
    /\ LET r == ReadCall(config, packet, k, alias)
       IN /\ config' = r.config
          /\ status' = r.ret
          /\ oob' = (oob \/ (CallAt(k).accessor = "reset_cycles"
                               /\ ResetCyclesStoreOutside(config, packet)))
    /\ op' = "read_accessor"
    /\ calls' = calls + 1
    /\ arg' = [k |-> k, v |-> 0]
    /\ UNCHANGED <<packets, config2, packet, out, data, ret>>

\* accessor(&config, &packet), for the write accessor that write_all calls
\* on its k-th packet
AccessorWrite(k) ==
    /\ op = "init"
    /\ packet' = WriteCall(config, packet, k)
    /\ op' = "write_accessor"
    /\ calls' = calls + 1
    /\ arg' = [k |-> k, v |-> 0]
    /\ UNCHANGED <<config, packets, config2, status, out, data, ret, oob>>

\* every write accessor call of write_all; every read accessor once, the
\* pixel trim accessor for the first and last channel
SpecAccessor ==
    InitAccessor
    /\ [][\/ \E k \in {c \in 0..(LARPIX_NUM_CONFIG_REGISTERS - 1) :
                           CallAt(c).i = 0 \/ c = LARPIX_NUM_CHANNELS - 1},
                alias \in BOOLEAN : AccessorRead(k, alias)
          \/ \E k \in 0..(LARPIX_NUM_CONFIG_REGISTERS - 1) : AccessorWrite(k)]_vars

\* C11: each read accessor, given a packet whose register address is outside
\* the addresses of the accessor's field, returns a non-zero status and
\* leaves every field of the Configuration unchanged.
C11_OutOfRangeRejected ==
    [][ (op' = "read_accessor"
         /\ larpix_uart_get_register(packet) \notin AcceptedAddresses(arg'.k))
        => (status' # 0 /\ config' = config) ]_vars

\* C11 witness: the channel mask accessor has been called on a packet that
\* carries the first address after its range and data 255, and returned a
\* non-zero status.
C11_Witness ==
    /\ op = "read_accessor"
    /\ CallAt(arg.k).accessor = "channel_mask"
    /\ larpix_uart_get_register(packet) = LARPIX_REG_CHANNEL_MASK_HIGH + 1
    /\ larpix_uart_get_register_data(packet) = 255
    /\ status # 0

(***************************************************************************)
(* read_all on streams with bad packets (checked under SpecConfig)         *)
(***************************************************************************)
\* the k-th packet carries an address that the accessor called on it accepts
ValidAt(k) == larpix_uart_get_register(packets[k]) \in AcceptedAddresses(k)

\* the register that cfg holds at the address of the k-th packet, as the
\* write accessor of that address packs it, is the data of the k-th packet
DecodedAt(cfg, k) ==
    larpix_uart_get_register_data(
        WriteCall(cfg, packets[k], larpix_uart_get_register(packets[k])))
      = larpix_uart_get_register_data(packets[k])

\* C12 (as claimed): read_all never stops at a bad packet: the status is the
\* number of packets whose accessor reported failure, and every packet whose
\* address is valid for its position is decoded into its Configuration field
\* (stated for the last valid packet of each address, which no later packet
\* of the stream overwrites).
C12_NeverStops ==
    op = "read_all" =>
        /\ status = Cardinality({k \in Positions : ~ValidAt(k)})
        /\ \A k \in Positions :
              (/\ ValidAt(k)
               /\ \A j \in Positions :
                     (j > k /\ ValidAt(j)) =>
                         larpix_uart_get_register(packets[j])
                             # larpix_uart_get_register(packets[k]))
              => DecodedAt(config2, k)

\* ------------------------------------------------------------------
\* UART packet fields: getters, setters and layout
\* ------------------------------------------------------------------

\* The sample range of the field a setter stores into.
SetterRange(name) ==
    CASE name = "set_packet_type" -> LARPIX_UART_PTYPE_LOW..LARPIX_UART_PTYPE_HIGH
      [] name = "set_chipid" -> LARPIX_UART_CHIPID_LOW..LARPIX_UART_CHIPID_HIGH
      [] name = "set_channelid" -> LARPIX_UART_CHANNELID_LOW..LARPIX_UART_CHANNELID_HIGH
      [] name = "set_timestamp" -> LARPIX_UART_TIMESTAMP_LOW..LARPIX_UART_TIMESTAMP_HIGH
      [] name = "set_dataword" -> LARPIX_UART_DATAWORD_LOW..LARPIX_UART_DATAWORD_HIGH
      [] name = "set_fifohalfflag" -> {LARPIX_UART_FIFO_HALF}
      [] name = "set_fifofullflag" -> {LARPIX_UART_FIFO_FULL}
      [] name = "set_register" -> LARPIX_UART_REGISTER_ADDRESS_LOW..LARPIX_UART_REGISTER_ADDRESS_HIGH
      [] name = "set_register_data" -> LARPIX_UART_REGISTER_DATA_LOW..LARPIX_UART_REGISTER_DATA_HIGH
      [] name = "set_parity" -> {LARPIX_UART_PARITY}
      [] name = "force_set_parity" -> {LARPIX_UART_PARITY}
      [] OTHER -> {}

\* The setters that store the bits of their argument.
ValueSetters ==
    {"set_packet_type", "set_chipid", "set_channelid", "set_timestamp",
     "set_dataword", "set_register", "set_register_data"}

\* The setters that store one sample saying whether their argument is non-zero.
FlagSetters == {"set_fifohalfflag", "set_fifofullflag", "force_set_parity"}

\* What the getter of a setter's field returns.
GetterOf(name, p) ==
    CASE name = "set_packet_type" -> larpix_uart_get_packet_type(p)
      [] name = "set_fifohalfflag" -> larpix_uart_get_fifohalfflag(p)
      [] name = "set_fifofullflag" -> larpix_uart_get_fifofullflag(p)
      [] name = "set_chipid" -> larpix_uart_get_chipid(p)
      [] name = "set_channelid" -> larpix_uart_get_channelid(p)
      [] name = "set_timestamp" -> larpix_uart_get_timestamp(p)
      [] name = "set_dataword" -> larpix_uart_get_dataword(p)
      [] name = "set_register" -> larpix_uart_get_register(p)
      [] name = "set_register_data" -> larpix_uart_get_register_data(p)

\* C13: for packet type, chip id, channel id, timestamp, dataword,
\* register address and register data, the getter called right after the
\* setter stored v returns v modulo 2^w, w being the width of the field.
C13_GetAfterSet ==
    op \in ValueSetters =>
        GetterOf(op, packet) = arg.v % (2 ^ Cardinality(SetterRange(op)))

\* A chip id wider than 8 bits was stored and read back truncated.
C13_Witness ==
    /\ op = "set_chipid"
    /\ arg.v = 376
    /\ larpix_uart_get_chipid(packet) = 120

\* C14: a setter leaves every sample outside its own field as it was.
C14_OnlyOwnField ==
    [][\A i \in (0..(LARPIX_UART_SIZE - 1)) \ SetterRange(op') : packet'[i] = packet[i]]_vars

\* The timestamp was stored as zeros at both ends of its field while
\* the neighbouring samples of channel id and dataword stay 1.
C14_Witness ==
    /\ op = "set_timestamp"
    /\ packet[LARPIX_UART_TIMESTAMP_LOW] = 0
    /\ packet[LARPIX_UART_TIMESTAMP_HIGH] = 0
    /\ packet[LARPIX_UART_CHANNELID_HIGH] = 1
    /\ packet[LARPIX_UART_DATAWORD_LOW] = 1

\* Sample lo + k of the field of setter name is bit k of v.
BitExact(name, p, v) ==
    LET lo == CHOOSE i \in SetterRange(name) : \A j \in SetterRange(name) : i <= j
    IN \A i \in SetterRange(name) : p[i] = BitOf(v, i - lo)

C16_DataTypeSamples ==
    /\ (/\ op = "set_packet_type"
        /\ arg.v = LARPIX_PACKET_DATA
        /\ calls = 1
        /\ \A i \in 2..(LARPIX_UART_SIZE - 1) : packet[i] = 0)
         => (packet[0] = 1 /\ packet[1] = 0)
    /\ (packet[1] = 1 /\ \A i \in (0..(LARPIX_UART_SIZE - 1)) \ {1} : packet[i] = 0)
         => larpix_uart_get_packet_type(packet) = 2

\* C17: the test counter is the 16-bit number whose bits 0..11 are the
\* samples of the low field and whose bits 12..15 are the samples of the
\* high field, a non-zero sample counting as 1.
C17_TestCounter ==
    op = "get_test_counter" =>
        /\ ret \in 0..65535
        /\ \A k \in 0..11 :
              BitOf(ret, k) = (IF packet[LARPIX_UART_TEST_BITS_11_0_LOW + k] = 0 THEN 0 ELSE 1)
        /\ \A k \in 0..3 :
              BitOf(ret, 12 + k) = (IF packet[LARPIX_UART_TEST_BITS_15_12_LOW + k] = 0 THEN 0 ELSE 1)

\* Only samples 50 and 10 are set and the counter is 4608.
C17_Witness ==
    /\ op = "get_test_counter"
    /\ \A i \in 0..(LARPIX_UART_SIZE - 1) : packet[i] = (IF i \in {10, 50} THEN 1 ELSE 0)
    /\ ret = 4608

\* ------------------------------------------------------------------
\* Pattern buffer: clock, bitstreams and byte arrays
\* ------------------------------------------------------------------

\* nbytes after "if(nbytes > LARPIX_BUFFER_SIZE) nbytes = LARPIX_BUFFER_SIZE;"
ClampBytes(nbytes) ==
    IF UintGreater(nbytes, LARPIX_BUFFER_SIZE) THEN LARPIX_BUFFER_SIZE ELSE nbytes

\* larpix_data_set_bitstream copying the bytes as they are
larpix_data_set_bitstream_Raw(d, array, bit_position, nbytes) ==
    LET n == ClampBytes(nbytes)
    IN [d EXCEPT ![bit_position] =
           [i \in Samples |-> IF i < n THEN array[i] ELSE @[i]]]

\* bit_position is one of the 8 channels in every call of this section
larpix_data_set_bitstream(d, array, bit_position, nbytes) ==
    LET n == ClampBytes(nbytes)
    IN [d EXCEPT ![bit_position] =
           [i \in Samples |-> IF i < n THEN (IF array[i] = 0 THEN 0 ELSE 1) ELSE @[i]]]

\* the caller's array (LARPIX_BUFFER_SIZE bytes) after the call
larpix_data_get_bitstream(d, array, bit_position, nbytes) ==
    LET n == ClampBytes(nbytes)
    IN [i \in Samples |->
           IF i < n THEN (IF d[bit_position][i] = 0 THEN 0 ELSE 1) ELSE array[i]]

larpix_data_set_clk(d, bit_position) ==
    LET clk_pattern == [i \in Samples |-> i % 2]
    IN larpix_data_set_bitstream(d, clk_pattern, bit_position, LARPIX_BUFFER_SIZE)

\* array[i] after the inner loop of larpix_data_to_array, from bit_position on
RECURSIVE ToArrayLoop(_, _, _, _)
ToArrayLoop(d, i, bit_position, acc) ==
    IF bit_position >= 8 THEN acc
    ELSE LET binary_form == ToByte(2 ^ bit_position)
         IN ToArrayLoop(d, i, bit_position + 1,
                        IF d[bit_position][i] # 0 THEN ToByte(acc + binary_form) ELSE acc)

\* larpix_data_to_array reading bit_position 7 into the lowest bit
larpix_data_to_array_MsbFirst(d, array, nbytes) ==
    LET n == ClampBytes(nbytes)
    IN [i \in Samples |->
           IF i < n
           THEN ToArrayLoop([c \in BitChannels |-> d[7 - c]], i, 0, 0)
           ELSE array[i]]

\* the caller's array (LARPIX_BUFFER_SIZE bytes) after the call
larpix_data_to_array(d, array, nbytes) ==
    LET n == ClampBytes(nbytes)
    IN [i \in Samples |-> IF i < n THEN ToArrayLoop(d, i, 0, 0) ELSE array[i]]

\* larpix_array_to_data leaving channel 7 alone
larpix_array_to_data_SevenChannels(d, array, nbytes) ==
    LET n == ClampBytes(nbytes)
    IN [bit_position \in BitChannels |->
           [i \in Samples |->
               IF i < n /\ bit_position < 7
               THEN (IF BitOf(array[i], bit_position) # 0 THEN 1 ELSE 0)
               ELSE d[bit_position][i]]]

\* (binary_form & array[i]) != 0 is: bit bit_position of array[i] is set
larpix_array_to_data(d, array, nbytes) ==
    LET n == ClampBytes(nbytes)
    IN [bit_position \in BitChannels |->
           [i \in Samples |->
               IF i < n
               THEN (IF BitOf(array[i], bit_position) # 0 THEN 1 ELSE 0)
               ELSE d[bit_position][i]]]

\* ------------------------------------------------------------------
\* Scenario 5: a program fills a buffer as main does and converts it
\* to and from a byte array
\* ------------------------------------------------------------------

MaxDataCalls == 2

\* the packet of main: declared, never initialised, three setters called
MainPacket(g) ==
    larpix_uart_set_parity(
        larpix_uart_set_chipid(
            larpix_uart_set_packet_type(GarbagePacket(g), LARPIX_PACKET_CONFIG_WRITE),
            12))

\* byte arrays of LARPIX_BUFFER_SIZE bytes: the one of test_array_to_data
\* and one with the byte values mixed
ByteArrays ==
    { [i \in Samples |-> i % 256],
      [i \in Samples |-> (i * 37 + 201) % 256] }

InitData ==
    /\ op = "init"
    /\ calls = 0
    /\ data \in {larpix_data_init_high, larpix_data_init_low}
    /\ out \in ByteArrays
    /\ packet \in {MainPacket(0), MainPacket(MaxGarbageSeed)}
    /\ config = NoObject
    /\ packets = NoObject
    /\ config2 = NoObject
    /\ status = 0
    /\ ret = 0
    /\ arg = [bit_position |-> 0, nbytes |-> 0]
    /\ oob = FALSE

\* a call that stores into the buffer
DataStore(name, d, bit_position, nbytes) ==
    /\ calls < MaxDataCalls
    /\ data' = d
    /\ op' = name
    /\ calls' = calls + 1
    /\ arg' = [bit_position |-> bit_position, nbytes |-> nbytes]
    /\ UNCHANGED <<config, packets, config2, status, packet, out, oob>>

DataSetClk(bit_position) ==
    /\ DataStore("set_clk", larpix_data_set_clk(data, bit_position),
                 bit_position, LARPIX_BUFFER_SIZE)
    /\ ret' = ret

DataSetBitstream(array, bit_position, nbytes) ==
    /\ DataStore("set_bitstream", larpix_data_set_bitstream(data, array, bit_position, nbytes),
                 bit_position, nbytes)
    /\ ret' = ret

DataArrayToData(nbytes) ==
    /\ DataStore("array_to_data", larpix_array_to_data(data, out, nbytes), 0, nbytes)
    /\ ret' = ret

\* the frame fits the channel: no access outside the buffer
DataUartToData(bit_position, startbit) ==
    LET r == larpix_uart_to_data(packet, data, bit_position, startbit, "miss")
    IN /\ DataStore("uart_to_data", r.data, bit_position, startbit)
       /\ ret' = r.ret

DataToArray(nbytes) ==
    /\ calls < MaxDataCalls
    /\ out' = larpix_data_to_array(data, out, nbytes)
    /\ op' = "data_to_array"
    /\ calls' = calls + 1
    /\ arg' = [bit_position |-> 0, nbytes |-> nbytes]
    /\ UNCHANGED <<config, packets, config2, status, packet, data, ret, oob>>

DataGetBitstream(bit_position, nbytes) ==
    /\ calls < MaxDataCalls
    /\ out' = larpix_data_get_bitstream(data, out, bit_position, nbytes)
    /\ op' = "get_bitstream"
    /\ calls' = calls + 1
    /\ arg' = [bit_position |-> bit_position, nbytes |-> nbytes]
    /\ UNCHANGED <<config, packets, config2, status, packet, data, ret, oob>>

SpecData ==
    InitData /\ [][\/ DataSetClk(0)
                   \/ \E nbytes \in {100, LARPIX_BUFFER_SIZE + 1} : DataSetBitstream(out, 2, nbytes)
                   \/ \E nbytes \in {100, LARPIX_BUFFER_SIZE + 1} : DataGetBitstream(2, nbytes)
                   \/ \E nbytes \in {100, LARPIX_BUFFER_SIZE} : DataArrayToData(nbytes)
                   \/ DataUartToData(1, 50)
                   \/ \E nbytes \in {100, LARPIX_BUFFER_SIZE, LARPIX_BUFFER_SIZE + 1} :
                          DataToArray(nbytes)]_vars

\* C18: starting from init_high or init_low, after any sequence of
\* set_clk, set_bitstream, array_to_data and uart_to_data calls, with a
\* packet built through the packet setters, every one of the 8 x 1024
\* samples of the buffer is 0 or 1.
C18_SamplesBinary ==
    \A bit_position \in BitChannels : \A i \in Samples : data[bit_position][i] \in {0, 1}

\* C19: larpix_data_to_array writes at every index below min(n, 1024) a
\* byte whose bit k is 1 exactly when the sample of channel k at that
\* index is non-zero (on a 0/1 buffer: equals the sample), writes nothing
\* at the indices from min(n, 1024) on, and leaves the buffer unchanged.
C19_ToArray ==
    [][op' = "data_to_array" =>
          /\ \A i \in Samples :
                IF i < ClampBytes(arg'.nbytes)
                THEN /\ out'[i] \in 0..255
                     /\ \A k \in BitChannels :
                           BitOf(out'[i], k) = (IF data[k][i] = 0 THEN 0 ELSE 1)
                ELSE out'[i] = out[i]
          /\ data' = data]_vars

\* The clock on channel 0 and ones on the others were packed into the
\* first 100 bytes, the byte after them keeping its old value.
C19_Witness ==
    /\ op = "data_to_array"
    /\ arg.nbytes = 100
    /\ out[98] = 254
    /\ out[99] = 255
    /\ out[100] = (100 * 37 + 201) % 256

\* C20: for n <= 1024, larpix_data_to_array right after
\* larpix_array_to_data with the same n gives back the first n bytes of
\* the array; larpix_array_to_data right after larpix_data_to_array with
\* the same n leaves a 0/1 buffer as it was; larpix_array_to_data never
\* changes a sample at an index from n on.
C20_Inverse ==
    [][/\ (op = "array_to_data" /\ op' = "data_to_array" /\ arg'.nbytes = arg.nbytes)
          => \A i \in Samples : i < arg.nbytes => out'[i] = out[i]
       /\ (op = "data_to_array" /\ op' = "array_to_data" /\ arg'.nbytes = arg.nbytes
             /\ \A c \in BitChannels : \A i \in Samples : data[c][i] \in {0, 1})
          => data' = data
       /\ op' = "array_to_data"
          => \A c \in BitChannels : \A i \in Samples :
                i >= arg'.nbytes => data'[c][i] = data[c][i]]_vars

\* An array with bit 7 set in some of its first 100 bytes was unpacked
\* into a buffer of zeros and packed again.
C20_Witness ==
    /\ op = "data_to_array"
    /\ calls = 2
    /\ arg.nbytes = 100
    /\ out[0] = 201
    /\ out[1] = 238
    /\ data[7][0] = 1
    /\ data[7][100] = 0
    /\ data[0][1] = 0

\* C21: larpix_data_set_bitstream sets sample i of channel c, for every
\* i below min(n, 1024), to 0 when values[i] is 0 and to 1 otherwise, and
\* changes no other sample of channel c and no sample of another channel;
\* larpix_data_get_bitstream called next with the same channel and n
\* returns those normalised values and leaves the entries from n on as
\* they were.
C21_BitstreamFrame ==
    [][/\ op' = "set_bitstream" =>
             \A c \in BitChannels : \A i \in Samples :
                data'[c][i] = IF c = arg'.bit_position /\ i < ClampBytes(arg'.nbytes)
                              THEN (IF out[i] = 0 THEN 0 ELSE 1)
                              ELSE data[c][i]
       /\ (op = "set_bitstream" /\ op' = "get_bitstream" /\ arg' = arg) =>
             \A i \in Samples :
                out'[i] = IF i < ClampBytes(arg.nbytes)
                          THEN (IF out[i] = 0 THEN 0 ELSE 1)
                          ELSE out[i]]_vars

\* The array of test_array_to_data was stored into channel 2 over 100
\* samples and read back: 0 stays 0, 2 comes back as 1, entry 100 is kept.
C21_Witness ==
    /\ op = "get_bitstream"
    /\ calls = 2
    /\ arg.nbytes = 100
    /\ data[2][0] = 0
    /\ data[2][2] = 1
    /\ out[0] = 0
    /\ out[2] = 1
    /\ out[100] = 100

\* ------------------------------------------------------------------
\* Register value packing (checked under SpecAccessor)
\* ------------------------------------------------------------------

\* the accessors of the five 32-channel arrays
ArrayAccessors ==
    {"csa_bypass_select", "csa_monitor_select", "csa_testpulse_enable",
     "channel_mask", "external_trigger_mask"}

\* the array of cfg that accessor a carries
ArrayField(cfg, a) ==
    CASE a = "csa_bypass_select" -> cfg.csa_bypass_select
      [] a = "csa_monitor_select" -> cfg.csa_monitor_select
      [] a = "csa_testpulse_enable" -> cfg.csa_testpulse_enable
      [] a = "channel_mask" -> cfg.channel_mask
      [] a = "external_trigger_mask" -> cfg.external_trigger_mask

\* the base address of the field of accessor a
ArrayLow(a) ==
    CASE a = "csa_bypass_select" -> LARPIX_REG_CSA_BYPASS_SELECT_LOW
      [] a = "csa_monitor_select" -> LARPIX_REG_CSA_MONITOR_SELECT_LOW
      [] a = "csa_testpulse_enable" -> LARPIX_REG_CSA_TESTPULSE_ENABLE_LOW
      [] a = "channel_mask" -> LARPIX_REG_CHANNEL_MASK_LOW
      [] a = "external_trigger_mask" -> LARPIX_REG_EXTERNAL_TRIGGER_MASK_LOW

\* the register at address carries in value the fields of cfg that
\* accessor a packs, at the positions the claim lists
PackedAs(cfg, a, address, value) ==
    /\ a \in ArrayAccessors =>
          /\ address - ArrayLow(a) \in 0..3
          /\ \A i \in Channels :
                i \div 8 = address - ArrayLow(a)
                   => BitOf(value, i % 8) = ArrayField(cfg, a)[i]
    /\ a = "csa_gain_and_bypasses" =>
          /\ address = LARPIX_REG_CSA_GAIN_AND_BYPASSES
          /\ BitOf(value, 0) = cfg.csa_gain
          /\ BitOf(value, 1) = cfg.csa_bypass
          /\ BitOf(value, 2) = cfg.internal_bypass
    /\ a = "test_mode_xtrig_reset_diag" =>
          /\ address = LARPIX_REG_TEST_MODE_XTRIG_RESET_DIAG
          /\ value % 4 = cfg.test_mode
          /\ BitOf(value, 2) = cfg.cross_trigger_mode
          /\ BitOf(value, 3) = cfg.periodic_reset
          /\ BitOf(value, 4) = cfg.fifo_diagnostic

\* C22: a write accessor, for a Configuration whose fields fit their
\* widths, stores channel i of a 32-channel array in the register at the
\* base address of the field + (i div 8), data bit (i mod 8), csa_gain,
\* csa_bypass and internal_bypass in bits 0, 1, 2 of the gain register,
\* test_mode in bits 1:0 and cross_trigger_mode, periodic_reset,
\* fifo_diagnostic in bits 2, 3, 4 of the test-mode register (the i-th
\* call of the accessor in write_all writing the register base + i); a
\* read accessor that accepts a packet decodes from the same positions.
C22_RegisterPacking ==
    /\ (op = "write_accessor" /\ FitsWidths(config)) =>
          /\ PackedAs(config, CallAt(arg.k).accessor,
                      larpix_uart_get_register(packet),
                      larpix_uart_get_register_data(packet))
          /\ CallAt(arg.k).accessor \in ArrayAccessors =>
                larpix_uart_get_register(packet)
                   = ArrayLow(CallAt(arg.k).accessor) + CallAt(arg.k).i
    /\ (op = "read_accessor" /\ status = 0) =>
          PackedAs(config, CallAt(arg.k).accessor,
                   larpix_uart_get_register(packet),
                   larpix_uart_get_register_data(packet))

\* The monitor-select accessor decoded data 129 from the second register
\* of its field into channels 8..15.
C22_Witness ==
    /\ op = "read_accessor"
    /\ status = 0
    /\ CallAt(arg.k).accessor = "csa_monitor_select"
    /\ larpix_uart_get_register(packet) = LARPIX_REG_CSA_MONITOR_SELECT_LOW + 1
    /\ larpix_uart_get_register_data(packet) = 129
    /\ config.csa_monitor_select[8] = 1
    /\ config.csa_monitor_select[9] = 0
    /\ config.csa_monitor_select[15] = 1

\* C26: a read accessor stores only inside the array of the
\* Configuration it decodes into, and so never changes
\* adc_burst_length unless it is the accessor of that field.
C26_StoresInBounds ==
    [][op' = "read_accessor" =>
          /\ oob' = oob
          /\ CallAt(arg'.k).accessor # "adc_burst_length"
                => config'.adc_burst_length = config.adc_burst_length]_vars

\* C27: when a register shared by several fields is written from a
\* Configuration and read back into it, every field of the register comes
\* back as its value modulo 2^width (1 bit, 2 bits for test_mode): a field
\* wider than its width is truncated and the other fields keep their values.
C27_SharedRegisterIsolation ==
    [][(/\ op = "write_accessor"
        /\ op' = "read_accessor"
        /\ CallAt(arg'.k).accessor = CallAt(arg.k).accessor)
       => LET a == CallAt(arg.k).accessor
          IN /\ a = "csa_gain_and_bypasses" =>
                   /\ config'.csa_gain = config.csa_gain % 2
                   /\ config'.csa_bypass = config.csa_bypass % 2
                   /\ config'.internal_bypass = config.internal_bypass % 2
             /\ a = "test_mode_xtrig_reset_diag" =>
                   /\ config'.test_mode = config.test_mode % 4
                   /\ config'.cross_trigger_mode = config.cross_trigger_mode % 2
                   /\ config'.periodic_reset = config.periodic_reset % 2
                   /\ config'.fifo_diagnostic = config.fifo_diagnostic % 2
             /\ a \in ArrayAccessors =>
                   \A i \in Channels :
                      ArrayField(config', a)[i] =
                         IF i \div 8 = CallAt(arg.k).i
                         THEN ArrayField(config, a)[i] % 2
                         ELSE ArrayField(config, a)[i]]_vars

\* ------------------------------------------------------------------
\* The frame in the buffer (checked under SpecFraming)
\* ------------------------------------------------------------------

\* C24: a larpix_uart_to_data(P, buf, c, o) call that returns 0 and stays
\* inside the buffer writes the samples o .. o + 56 * B - 1 of channel c,
\* B being LARPIX_BITS_PER_BAUD: B samples 0, then B samples P[i] for each
\* i in 0..53, then B samples 1; every other sample of the buffer is
\* unchanged.
C24_FrameWritten ==
    [][(/\ op = "init"
        /\ op' = "uart_to_data"
        /\ ret' = 0
        /\ ~oob')
       => LET c == arg'.bit_position
              o == arg'.startbit
              B == LARPIX_BITS_PER_BAUD
          IN \A ch \in BitChannels : \A s \in Samples :
                data'[ch][s] =
                   IF ch = c /\ s >= o /\ s <= o + 56 * B - 1
                   THEN IF s < o + B THEN 0
                        ELSE IF s >= o + 55 * B THEN 1
                        ELSE packet[((s - o) \div B) - 1]
                   ELSE data[ch][s]]_vars

\* The packet of main was framed at offset 800 of channel 1 of a buffer of
\* ones: start bit, the two packet type samples 0 and 1, stop bit.
C24_Witness ==
    /\ op = "uart_to_data"
    /\ ret = 0
    /\ ~oob
    /\ arg.bit_position = 1
    /\ arg.startbit = 800
    /\ packet = FilledPacket
    /\ data[1][799] = 1
    /\ data[1][800] = 0
    /\ data[1][807] = 0
    /\ data[1][808] = 1
    /\ data[1][1023] = 1
    /\ data[0][800] = 1

\* C29: larpix_data_to_uart, called on a channel of the buffer, returns a
\* non-zero error and leaves the packet unchanged for every start offset o
\* with o + (54 + 2) * bits_per_baud > 1024, and returns 0 otherwise
\* (stated for the start offsets 0..1023).
C29_SameOffsetsAccepted ==
    [][(/\ op = "uart_to_data"
        /\ op' = "data_to_uart"
        /\ arg'.bit_position \in BitChannels
        /\ arg'.startbit \in Samples)
       => IF FrameExceeds(arg'.startbit)
          THEN ret' # 0 /\ out' = out
          ELSE ret' = 0]_vars

\* ------------------------------------------------------------------
\* Fields of one packet type (checked under SpecUart)
\* ------------------------------------------------------------------

\* the setters of the fields of a Data packet, and of a Config packet
DataSetters ==
    {"set_packet_type", "set_chipid", "set_channelid", "set_timestamp",
     "set_dataword", "set_fifohalfflag", "set_fifofullflag"}

ConfigSetters == {"set_packet_type", "set_chipid", "set_register", "set_register_data"}

\* the packet after the setter name stored v
ApplySetter(name, p, v) ==
    CASE name = "set_packet_type" -> larpix_uart_set_packet_type(p, v)
      [] name = "set_chipid" -> larpix_uart_set_chipid(p, v)
      [] name = "set_channelid" -> larpix_uart_set_channelid(p, v)
      [] name = "set_timestamp" -> larpix_uart_set_timestamp(p, v)
      [] name = "set_dataword" -> larpix_uart_set_dataword(p, v)
      [] name = "set_fifohalfflag" -> larpix_uart_set_fifohalfflag(p, v)
      [] name = "set_fifofullflag" -> larpix_uart_set_fifofullflag(p, v)
      [] name = "set_register" -> larpix_uart_set_register(p, v)
      [] name = "set_register_data" -> larpix_uart_set_register_data(p, v)

\* C30: the fields of a Data packet, and those of a Config packet, occupy
\* pairwise disjoint sample ranges; a setter of one of them leaves the
\* value that the getter of every other field of the type returns as it
\* was; and on a packet on which no setter was called yet it gives the
\* same packet whether it is called before or after the setter of another
\* field of the type.
C30_SettersCommute ==
    [][\A T \in {DataSetters, ConfigSetters} :
          op' \in T =>
             \A f \in T \ {op'} :
                /\ SetterRange(f) \cap SetterRange(op') = {}
                /\ GetterOf(f, packet') = GetterOf(f, packet)
                /\ calls = 0 =>
                      \A w \in {1, 2, 170} :
                         ApplySetter(f, packet', w)
                            = ApplySetter(op', ApplySetter(f, packet, w), arg'.v)]_vars

\* The channel id was set right after the timestamp next to it: the
\* timestamp still reads 2^24 - 1 and the channel id reads 64.
C30_Witness ==
    /\ op = "set_channelid"
    /\ calls = 2
    /\ larpix_uart_get_timestamp(packet) = 16777215
    /\ larpix_uart_get_channelid(packet) = 64

\* ------------------------------------------------------------------
\* Scenario 6: the two bit conversions on one byte array
\*   byte bitstream[...]; larpix_int_to_bitstream(bitstream, v, L);
\*   r = larpix_bitstream_to_int(bitstream, L); in either order
\* ------------------------------------------------------------------

MaxBitsCalls == 2

\* larpix_int_to_bitstream(bitstream, input, length), the array being packet
BitsIntToBitstream(input) ==
    /\ calls < MaxBitsCalls
    /\ packet' = larpix_int_to_bitstream(packet, 0, input, arg.length)
    /\ op' = "int_to_bitstream"
    /\ calls' = calls + 1
    /\ arg' = [arg EXCEPT !.v = input]
    /\ UNCHANGED <<config, packets, config2, status, out, data, ret, oob>>

\* ret = larpix_bitstream_to_int(bitstream, length)
BitsBitstreamToInt ==
    /\ calls < MaxBitsCalls
    /\ ret' = larpix_bitstream_to_int(packet, 0, arg.length)
    /\ op' = "bitstream_to_int"
    /\ calls' = calls + 1
    /\ UNCHANGED <<config, packets, config2, status, packet, out, data, arg, oob>>

\* the array holds 0/1 samples (FilledPacket) or was never initialised;
\* the value passed is arg.v or the last result
SpecBits ==
    /\ op = "init"
    /\ calls = 0
    /\ packet \in FramePackets
    /\ arg \in [v : {0, 1, 11259375, 16777215, 16777221, 2147483647}, length : 0..24]
    /\ config = NoObject
    /\ packets = NoObject
    /\ config2 = NoObject
    /\ status = 0
    /\ out = NoObject
    /\ data = NoObject
    /\ ret = 0
    /\ oob = FALSE
    /\ [][\/ \E input \in {arg.v, ret} : BitsIntToBitstream(input)
           \/ BitsBitstreamToInt]_vars

\* C23: for every length L in 0..24, larpix_int_to_bitstream stores bit j
\* of v in sample j for j < L and nothing else; larpix_bitstream_to_int
\* returns the number below 2^L whose bit j says whether sample j is
\* non-zero; larpix_bitstream_to_int after larpix_int_to_bitstream returns
\* v mod 2^L; and larpix_int_to_bitstream of the result of
\* larpix_bitstream_to_int leaves a 0/1 sequence as it was.
C23_LittleEndianInverses ==
    [][LET L == arg'.length
       IN /\ op' = "int_to_bitstream" =>
                \A j \in DOMAIN packet :
                   packet'[j] = IF j < L THEN BitOf(arg'.v, j) ELSE packet[j]
          /\ op' = "bitstream_to_int" =>
                /\ ret' \in 0..(2^L - 1)
                /\ \A j \in 0..(L - 1) :
                      BitOf(ret', j) = (IF packet[j] = 0 THEN 0 ELSE 1)
          /\ (op = "int_to_bitstream" /\ op' = "bitstream_to_int") =>
                ret' = arg.v % (2^L)
          /\ (/\ op = "bitstream_to_int"
              /\ op' = "int_to_bitstream"
              /\ arg'.v = ret
              /\ \A j \in 0..(L - 1) : packet[j] \in {0, 1}) =>
                packet' = packet]_vars

\* A 24-bit value was stored over 24 samples and read back whole.
C23_Witness ==
    /\ op = "bitstream_to_int"
    /\ calls = 2
    /\ arg.length = 24
    /\ arg.v = 11259375
    /\ ret = 11259375

\* ------------------------------------------------------------------
\* Scenario 7: the transfer loops larpix_write_data, larpix_read_data
\* and larpix_write_read_data.  The device (FT_Write, FT_Read) is the
\* environment: it chooses the status and the byte count it reports and
\* the bytes it delivers.  One step is one iteration of the loop.
\*   op     : the function that is running, "returned" after its return
\*   calls  : counter
\*   status : the FT_STATUS of the last transfer
\*   ret    : tot_num_bytes_written and tot_num_bytes_read
\*   out    : output_buffer, the bytes FT_Write is handed
\*   data   : write_array (data_array of larpix_write_data) and
\*            read_array (data_array of larpix_read_data)
\*   arg    : the function, the requested number of iterations, the byte
\*            count per transfer, the transfers issued so far and the
\*            bytes the last FT_Read left in input_buffer
\* ------------------------------------------------------------------

MaxTransfers == 2

\* one iteration of the loop of larpix_write_data; FT_Write returns st and
\* reports the count n
WriteIteration(st, n) ==
    /\ op = "write_data"
    /\ status = "FT_OK" /\ calls < arg.num
    /\ out' = larpix_data_to_array(data.write[calls], out, arg.nbytes)
    /\ status' = st
    /\ ret' = [ret EXCEPT !.written = UintAdd(@, n)]
    /\ calls' = calls + 1
    /\ arg' = [arg EXCEPT !.log = Append(@, [kind |-> "write", status |-> st, count |-> n])]
    /\ UNCHANGED <<op, config, packets, config2, packet, data, oob>>

\* one iteration of the loop of larpix_read_data; FT_Read returns st,
\* reports the count n and leaves input in input_buffer
ReadIteration(st, n, input) ==
    /\ op = "read_data"
    /\ status = "FT_OK" /\ calls < arg.num
    /\ data' = [data EXCEPT !.read[calls] = larpix_array_to_data(@, input, arg.nbytes)]
    /\ status' = st
    /\ ret' = [ret EXCEPT !.read = UintAdd(@, n)]
    /\ calls' = calls + 1
    /\ arg' = [arg EXCEPT !.log = Append(@, [kind |-> "read", status |-> st, count |-> n]),
                          !.input = input]
    /\ UNCHANGED <<op, config, packets, config2, packet, out, oob>>

\* one iteration of the loop of larpix_write_read_data (larpix.c:164-181):
\* output_buffer is never written, FT_Write is handed what it holds, and
\* the status of FT_Write is overwritten by the one of FT_Read
WriteReadIteration(wst, rst, input) ==
    /\ op = "write_read_data"
    /\ status = "FT_OK" /\ calls < arg.num
    /\ data' = [data EXCEPT
                   !.write[calls] = larpix_array_to_data(@, out, arg.nbytes),
                   !.read[calls] = larpix_array_to_data(@, input, arg.nbytes)]
    /\ status' = rst
    /\ ret' = [written |-> UintAdd(ret.written,
                                   IF wst = "FT_OK" THEN ClampBytes(arg.nbytes) ELSE 0),
               read |-> UintAdd(ret.read,
                                IF rst = "FT_OK" THEN ClampBytes(arg.nbytes) ELSE 0)]
    /\ calls' = calls + 1
    /\ arg' = [arg EXCEPT
                  !.log = @ \o << [kind |-> "write", status |-> wst,
                                   count |-> IF wst = "FT_OK" THEN ClampBytes(arg.nbytes) ELSE 0],
                                  [kind |-> "read", status |-> rst,
                                   count |-> IF rst = "FT_OK" THEN ClampBytes(arg.nbytes) ELSE 0] >>,
                  !.input = input]
    /\ UNCHANGED <<op, config, packets, config2, packet, out, oob>>

\* the loop condition fails and the function returns its totals
TransferReturn ==
    /\ op \in {"write_data", "read_data", "write_read_data"}
    /\ ~(status = "FT_OK" /\ calls < arg.num)
    /\ op' = "returned"
    /\ UNCHANGED <<calls, config, packets, config2, status, packet, out, data, ret, arg, oob>>

\* The state after the declarations of the function called: the buffers of
\* the caller hold a clock on channel k (write) and zeros (read);
\* output_buffer is not initialised.  A transfer that fails reports 0
\* bytes, one that succeeds reports the bytes asked for or fewer.
SpecTransfer ==
    /\ op \in {"write_data", "read_data", "write_read_data"}
    /\ calls = 0
    /\ status = "FT_OK"
    /\ ret = [written |-> 0, read |-> 0]
    /\ out \in ByteArrays
    /\ data = [write |-> [k \in 0..(MaxTransfers - 1) |->
                             larpix_data_set_clk(larpix_data_init_high, k)],
               read |-> [k \in 0..(MaxTransfers - 1) |-> larpix_data_init_low]]
    /\ \E num \in 0..MaxTransfers, nbytes \in {100, LARPIX_BUFFER_SIZE + 1} :
          arg = [f |-> op, num |-> num, nbytes |-> nbytes, log |-> <<>>, input |-> <<>>]
    /\ config = NoObject
    /\ packets = NoObject
    /\ config2 = NoObject
    /\ packet = NoObject
    /\ oob = FALSE
    /\ [][\/ \E o \in {<<"FT_OK", ClampBytes(arg.nbytes)>>, <<"FT_OK", 60>>,
                         <<"FT_IO_ERROR", 0>>} : WriteIteration(o[1], o[2])
          \/ \E o \in {<<"FT_OK", ClampBytes(arg.nbytes)>>, <<"FT_IO_ERROR", 0>>},
                input \in ByteArrays : ReadIteration(o[1], o[2], input)
          \/ \E wst \in {"FT_OK", "FT_IO_ERROR"}, rst \in {"FT_OK", "FT_IO_ERROR"} :
                WriteReadIteration(wst, rst, [i \in Samples |-> i % 256])
          \/ TransferReturn]_vars

\* C25: in an iteration of larpix_write_read_data the bytes handed to the
\* device write are larpix_data_to_array of write_array[counter] over the
\* first min(num_bytes_per_write, 1024) samples, write_array is left
\* unchanged, and only read_array[counter] is overwritten, with
\* larpix_array_to_data of the bytes read.
C25_WriteReadBuffers ==
    [][(op = "write_read_data" /\ op' = "write_read_data")
       => /\ \A i \in Samples :
                i < ClampBytes(arg.nbytes)
                   => out'[i] = larpix_data_to_array(data.write[calls], out, arg.nbytes)[i]
          /\ data'.write = data.write
          /\ data'.read = [data.read EXCEPT
                              ![calls] = larpix_array_to_data(@, arg'.input, arg.nbytes)]]_vars

\* the sum of the byte counts that the transfers of one kind reported
RECURSIVE SumCounts(_, _)
SumCounts(log, kind) ==
    IF log = <<>> THEN 0
    ELSE (IF Head(log).kind = kind THEN Head(log).count ELSE 0) + SumCounts(Tail(log), kind)

\* C28: in each of the three transfer functions no transfer is issued
\* after one that returned a status other than FT_OK, the loop makes at
\* most the requested number of iterations, and the totals returned are
\* the sums of the byte counts the issued transfers reported.
C28_StopsAtFirstFailure ==
    /\ \A i \in 1..(Len(arg.log) - 1) : arg.log[i].status = "FT_OK"
    /\ calls <= arg.num
    /\ op = "returned" =>
          /\ ret.written = SumCounts(arg.log, "write")
          /\ ret.read = SumCounts(arg.log, "read")
====
